---------------------------- MODULE Spec2Model ----------------------------
(***************************************************************************)
(* State-machine model of the STM32 RC transmitter firmware                *)
(* (EbrSiami/STM32-RC-Transmitter): the debounced Button class and the     *)
(* cooperative loop() of main.cpp with its navigation, timer and settings  *)
(* handlers.                                                               *)
(***************************************************************************)
EXTENDS Integers, Sequences, FiniteSets, TLC

(***************************************************************************)
(* Machine arithmetic.  millis() and every timestamp are 32-bit "unsigned  *)
(* long"; a difference of two of them is taken modulo 2^32.  TLC's own     *)
(* integers end at 2^31 - 1, so a clock value of 2^31 or more is written   *)
(* as the negative integer congruent to it modulo 2^32 (2^32 - 1 is -1:    *)
(* the clock wraps between -1 and 0), and 2^32 is written as a sum.  An    *)
(* elapsed time of 2^31 or more stops the check with an overflow error,    *)
(* never with a wrong value, should a run ever reach it.                   *)
(***************************************************************************)
MaxInt32 == 2147483647

\* a < b as unsigned long
U32Less(a, b) ==
  IF (a < 0) = (b < 0) THEN a < b ELSE b < 0

\* Mutant: the elapsed time is taken only when the clock reads no less than
\* the stamp ("now >= stamp ? now - stamp : 0").
U32Diff_NotBelowStamp(a, b) ==
  IF U32Less(a, b) THEN 0 ELSE a - b

\* unsigned long a - b
U32Diff(a, b) ==
  IF a >= b THEN a - b ELSE ((a - b) + MaxInt32) + MaxInt32 + 2

\* unsigned long a + b (the clock advancing by b)
U32Sum(a, b) ==
  IF a <= MaxInt32 - b THEN a + b ELSE ((a - MaxInt32) + b) - MaxInt32 - 2

(***************************************************************************)
(* Button (Button.cpp).  A Button object is a record of its private        *)
(* fields; digitalRead() yields HIGH or LOW.                               *)
(***************************************************************************)
HIGH == TRUE

LOW == FALSE

\* Debounce windows the program constructs its buttons with.
NAV_DEBOUNCE == 100

TRIM_DEBOUNCE == 50

Button(debounceDelay) ==
  [ debounceDelay            |-> debounceDelay,
    lastPhysicalState        |-> HIGH,
    buttonIsCurrentlyPressed |-> FALSE,
    wasJustPressedFlag       |-> FALSE,
    lastDebounceTime         |-> 0 ]

\* Mutant of the debounce test: commits after half the window.
Debounced_HalfWindow(b, currentTime) ==
  U32Diff(currentTime, b.lastDebounceTime) * 2 > b.debounceDelay

\* Button.cpp:39  (currentTime - _lastDebounceTime) > _debounceDelay
Debounced(b, currentTime) ==
  U32Diff(currentTime, b.lastDebounceTime) > b.debounceDelay

\* Mutant of update(): a changed sample does not restart the debounce timer.
Button_update_NoRestart(b, reading, currentTime) ==
  LET b1 == [b EXCEPT !.lastPhysicalState = reading]
  IN IF Debounced(b1, currentTime)
       THEN IF reading = LOW /\ ~b1.buttonIsCurrentlyPressed
              THEN [b1 EXCEPT !.buttonIsCurrentlyPressed = TRUE]
            ELSE IF reading = HIGH /\ b1.buttonIsCurrentlyPressed
              THEN [b1 EXCEPT !.buttonIsCurrentlyPressed = FALSE,
                              !.wasJustPressedFlag = TRUE]
            ELSE b1
       ELSE b1

\* Button::update() with the sampled level and the value of millis().
Button_update(b, reading, currentTime) ==
  LET b1 == IF reading # b.lastPhysicalState
              THEN [b EXCEPT !.lastDebounceTime = currentTime,
                             !.lastPhysicalState = reading]
              ELSE b
  IN IF Debounced(b1, currentTime)
       THEN IF reading = LOW /\ ~b1.buttonIsCurrentlyPressed
              THEN [b1 EXCEPT !.buttonIsCurrentlyPressed = TRUE]
            ELSE IF reading = HIGH /\ b1.buttonIsCurrentlyPressed
              THEN [b1 EXCEPT !.buttonIsCurrentlyPressed = FALSE,
                              !.wasJustPressedFlag = TRUE]
            ELSE b1
       ELSE b1

\* Mutant: the read does not consume the flag.
Button_wasJustPressed_NoClear(b) ==
  [ret |-> b.wasJustPressedFlag, b |-> b]

\* Button::wasJustPressed(): the returned value and the object afterwards.
Button_wasJustPressed(b) ==
  IF b.wasJustPressedFlag
    THEN [ret |-> TRUE, b |-> [b EXCEPT !.wasJustPressedFlag = FALSE]]
    ELSE [ret |-> FALSE, b |-> b]

\* Mutant: polling the held state consumes the click flag.
Button_isBeingHeld_Consumes(b) ==
  [ret |-> b.buttonIsCurrentlyPressed,
   b   |-> [b EXCEPT !.wasJustPressedFlag = FALSE]]

\* Button::isBeingHeld(): the returned value and the object afterwards.
Button_isBeingHeld(b) ==
  [ret |-> b.buttonIsCurrentlyPressed, b |-> b]

(***************************************************************************)
(* Settings record (Settings.h) and the enumerations of DisplayManager.h.  *)
(***************************************************************************)
MIN_TRIM_VALUE == 0

MAX_TRIM_VALUE == 4095

TRIM_CENTER == 2048

NUM_CHANNELS == 8

Channels == 0 .. (NUM_CHANNELS - 1)

\* struct RadioSettings
RadioSettings(t1, t2, t3, buzzer, light, inverted, profile, airplane) ==
  [ trim1            |-> t1,
    trim2            |-> t2,
    trim3            |-> t3,
    buzzerEnabled    |-> buzzer,
    lightModeEnabled |-> light,
    channelInverted  |-> inverted,
    timerProfile     |-> profile,
    airplaneMode     |-> airplane ]

\* enum DisplayState
DisplayState ==
  { "PAGE_MAIN1", "PAGE_MAIN2", "PAGE_MAIN3", "PAGE_TRIMS", "MENU",
    "PAGE_INFO", "PAGE_CALIBRATION", "PAGE_CH_INVERT" }

\* enum SettingsMenu
SETTING_LIGHT_MODE == 0

SETTING_BUZZER == 1

SETTING_CH_INVERT == 2

SETTING_RESET_TRIMS == 3

SETTING_THROTTLE_MODE == 4

SETTING_INFO == 5

SETTING_BACK == 6

SETTING_TOTAL == 7

(***************************************************************************)
(* Helpers of main.cpp.  Every operator below maps a record s of the       *)
(* program's globals (plus the clock and the durable EEPROM record) to     *)
(* the record after the call.                                              *)
(***************************************************************************)

\* Arduino delay(): the clock advances while nothing else is stepped.
delay(s, ms) ==
  [s EXCEPT !.millis = U32Sum(@, ms), !.delayed = @ + ms]

\* Mutant: a forced tone is suppressed by the mute setting as well.
beep_MuteSilencesForced(s, duration_ms, force) ==
  IF ~s.settings.buzzerEnabled
    THEN s
    ELSE [delay(s, duration_ms) EXCEPT
            !.tones = @ + 1,
            !.forcedTones = @ + (IF force THEN 1 ELSE 0)]

\* beep(duration_ms, force): pin HIGH, delay, pin LOW, unless muted.
beep(s, duration_ms, force) ==
  IF ~force /\ ~s.settings.buzzerEnabled
    THEN s
    ELSE [delay(s, duration_ms) EXCEPT
            !.tones = @ + 1,
            !.forcedTones = @ + (IF force THEN 1 ELSE 0)]

\* showSavingFeedback() (DisplayManager.cpp): screen, beep(100), delay(300).
showSavingFeedback(s) ==
  delay(beep(s, 100, FALSE), 300)

\* The four bytes of an int in the EEPROM image (little endian, two's
\* complement), as "(byte*)&settings" exposes them.
Int32Bytes(x) ==
  LET y == IF x < 0 THEN -(x + 1) ELSE x
      c(v) == IF x < 0 THEN 255 - v ELSE v
  IN << c(y % 256), c((y \div 256) % 256),
        c((y \div 65536) % 256), c((y \div 16777216) % 256) >>

\* The int that four bytes of the image make.
BytesInt32(b) ==
  IF b[4] >= 128
    THEN -((255 - b[1]) + 256 * (255 - b[2]) + 65536 * (255 - b[3])
           + 16777216 * (255 - b[4])) - 1
    ELSE b[1] + 256 * b[2] + 65536 * b[3] + 16777216 * b[4]

\* A bool is one byte of the image; a nonzero byte reads as true.
BoolByte(v) == IF v THEN 1 ELSE 0

ByteBool(b) == b # 0

\* eeprom.writeBlock(0, (byte*)&settings, sizeof(settings)): the bytes of
\* struct RadioSettings in declaration order.
RecordBytes(rec) ==
  Int32Bytes(rec.trim1) \o Int32Bytes(rec.trim2) \o Int32Bytes(rec.trim3)
    \o << BoolByte(rec.buzzerEnabled), BoolByte(rec.lightModeEnabled) >>
    \o [i \in 1 .. NUM_CHANNELS |-> BoolByte(rec.channelInverted[i - 1])]
    \o << rec.timerProfile, BoolByte(rec.airplaneMode) >>

\* eeprom.readBlock(0, (byte*)&settings, sizeof(settings)): the record the
\* bytes of the image make.
BytesRecord(b) ==
  RadioSettings(BytesInt32(SubSeq(b, 1, 4)), BytesInt32(SubSeq(b, 5, 8)),
                BytesInt32(SubSeq(b, 9, 12)), ByteBool(b[13]), ByteBool(b[14]),
                [i \in Channels |-> ByteBool(b[15 + i])], b[23],
                ByteBool(b[24]))

\* Mutant: the write leaves out the three trims.
saveSettings_SkipsTrims(s) ==
  [s EXCEPT !.eeprom = SubSeq(s.eeprom, 1, 12)
                         \o SubSeq(RecordBytes(s.settings), 13, 24),
            !.eepromWrites = @ + 1]

\* saveSettings(): the whole record goes to the durable store in one write.
saveSettings(s) ==
  [s EXCEPT !.eeprom = RecordBytes(s.settings), !.eepromWrites = @ + 1]

\* Mutant: the upper trim limit itself is rejected.
loadSettings_RejectsUpperLimit(block) ==
  LET stored == BytesRecord(block)
  IN IF stored.trim1 < MIN_TRIM_VALUE \/ stored.trim1 >= MAX_TRIM_VALUE
       THEN LET d == [stored EXCEPT !.trim1 = TRIM_CENTER,
                                    !.trim2 = TRIM_CENTER,
                                    !.trim3 = TRIM_CENTER,
                                    !.airplaneMode = FALSE,
                                    !.buzzerEnabled = TRUE,
                                    !.lightModeEnabled = FALSE,
                                    !.channelInverted =
                                       [i \in Channels |-> FALSE]]
            IN [settings |-> d, eeprom |-> RecordBytes(d), eepromWrites |-> 1]
       ELSE [settings |-> stored, eeprom |-> block, eepromWrites |-> 0]

\* loadSettings() applied to the stored image: the record in memory, the
\* durable image and the number of writes afterwards.  isnan() of an int
\* is always false.
loadSettings(block) ==
  LET stored == BytesRecord(block)
  IN IF stored.trim1 < MIN_TRIM_VALUE \/ stored.trim1 > MAX_TRIM_VALUE
       THEN LET d == [stored EXCEPT !.trim1 = TRIM_CENTER,
                                    !.trim2 = TRIM_CENTER,
                                    !.trim3 = TRIM_CENTER,
                                    !.airplaneMode = FALSE,
                                    !.buzzerEnabled = TRUE,
                                    !.lightModeEnabled = FALSE,
                                    !.channelInverted =
                                       [i \in Channels |-> FALSE]]
            IN [settings |-> d, eeprom |-> RecordBytes(d), eepromWrites |-> 1]
       ELSE [settings |-> stored, eeprom |-> block, eepromWrites |-> 0]

\* The timer durations of handleNavigationButtons (const int times[]).
times == <<0, 2, 5, 10>>

\* The search loop over times[]: index of the selected duration, 0 if absent.
timesIndex(minutes) ==
  IF \E i \in 0 .. 3 : times[i + 1] = minutes
    THEN CHOOSE i \in 0 .. 3 :
           /\ times[i + 1] = minutes
           /\ \A j \in 0 .. 3 : times[j + 1] = minutes => i <= j
    ELSE 0

\* Mutant: the settings menu is given one slot more than it has.
currentMaxIndex_OffByOne(page) ==
  IF page = "PAGE_MAIN3" THEN 2
  ELSE IF page = "PAGE_MAIN1" \/ page = "PAGE_MAIN2" THEN 1
  ELSE IF page = "PAGE_TRIMS" THEN 2
  ELSE IF page = "MENU" THEN SETTING_TOTAL
  ELSE IF page = "PAGE_CH_INVERT" THEN 8
  ELSE 0

\* currentMaxIndex as computed at the top of handleNavigationButtons.
currentMaxIndex(page) ==
  IF page = "PAGE_MAIN3" THEN 2
  ELSE IF page = "PAGE_MAIN1" \/ page = "PAGE_MAIN2" THEN 1
  ELSE IF page = "PAGE_TRIMS" THEN 2
  ELSE IF page = "MENU" THEN SETTING_TOTAL - 1
  ELSE IF page = "PAGE_CH_INVERT" THEN 8
  ELSE 0

\* Mutant: "previous" stops at index 0 instead of wrapping.
prevIndex_NoWrap(i, n) ==
  IF i = 0 THEN 0 ELSE i - 1

\* (index - 1 + n) % n, the "previous" step of a cursor over n slots.
prevIndex(i, n) ==
  (i - 1 + n) % n

\* Mutant: "next" stops at the last index instead of wrapping.
nextIndex_NoWrap(i, n) ==
  IF i = n - 1 THEN i ELSE i + 1

\* (index + 1) % n, the "next" step of a cursor over n slots.
nextIndex(i, n) ==
  (i + 1) % n

\* Mutant: while editing, Up steps the duration and moves the cursor too.
upPressed_MovesCursorInEdit(s, cmi) ==
  LET s1 == beep(s, 40, FALSE)
  IN IF s1.isTimeEditMode
       THEN [s1 EXCEPT !.selectedTimerMinutes =
                          times[nextIndex(timesIndex(@), 4) + 1],
                       !.settingsMenuIndex = prevIndex(@, cmi + 1)]
     ELSE IF s1.currentPage = "PAGE_TRIMS"
       THEN [s1 EXCEPT !.trimsMenuIndex = prevIndex(@, 3)]
     ELSE IF s1.currentPage = "PAGE_CH_INVERT"
       THEN [s1 EXCEPT !.invertMenuIndex = prevIndex(@, cmi + 1)]
     ELSE [s1 EXCEPT !.settingsMenuIndex = prevIndex(@, cmi + 1)]

\* The body of "if (upButton.wasJustPressed())".
upPressed(s, cmi) ==
  LET s1 == beep(s, 40, FALSE)
  IN IF s1.isTimeEditMode
       THEN [s1 EXCEPT !.selectedTimerMinutes =
                          times[nextIndex(timesIndex(@), 4) + 1]]
     ELSE IF s1.currentPage = "PAGE_TRIMS"
       THEN [s1 EXCEPT !.trimsMenuIndex = prevIndex(@, 3)]
     ELSE IF s1.currentPage = "PAGE_CH_INVERT"
       THEN [s1 EXCEPT !.invertMenuIndex = prevIndex(@, cmi + 1)]
     ELSE [s1 EXCEPT !.settingsMenuIndex = prevIndex(@, cmi + 1)]

\* The body of "if (downButton.wasJustPressed())".
downPressed(s, cmi) ==
  LET s1 == beep(s, 40, FALSE)
  IN IF s1.isTimeEditMode
       THEN [s1 EXCEPT !.selectedTimerMinutes =
                          times[prevIndex(timesIndex(@), 4) + 1]]
     ELSE IF s1.currentPage = "PAGE_TRIMS"
       THEN [s1 EXCEPT !.trimsMenuIndex = nextIndex(@, 3)]
     ELSE IF s1.currentPage = "PAGE_CH_INVERT"
       THEN [s1 EXCEPT !.invertMenuIndex = nextIndex(@, cmi + 1)]
     ELSE [s1 EXCEPT !.settingsMenuIndex = nextIndex(@, cmi + 1)]

\* Mutant of the commit: the start timestamp is not refreshed.
timerCommit_StaleStart(s) ==
  LET s1 == [s EXCEPT !.isTimeEditMode = FALSE]
      s2 == IF s1.selectedTimerMinutes > 0
              THEN [s1 EXCEPT !.isTimerArmed = TRUE,
                              !.isTimerRunning = TRUE]
              ELSE [s1 EXCEPT !.isTimerArmed = FALSE,
                              !.isTimerRunning = FALSE]
  IN beep(s2, 100, FALSE)

\* Enter on the dashboard timer slot while editing (main.cpp:269-275).
timerCommit(s) ==
  LET s1 == [s EXCEPT !.isTimeEditMode = FALSE]
      s2 == IF s1.selectedTimerMinutes > 0
              THEN [s1 EXCEPT !.isTimerArmed = TRUE,
                              !.isTimerRunning = TRUE,
                              !.countdownStartMillis = s1.millis]
              ELSE [s1 EXCEPT !.isTimerArmed = FALSE,
                              !.isTimerRunning = FALSE]
  IN beep(s2, 100, FALSE)

\* Mutant: opening the editor stops the countdown but leaves it armed.
timerEdit_KeepsArmed(s) ==
  beep([s EXCEPT !.isTimeEditMode = TRUE,
                 !.isTimerRunning = FALSE], 100, FALSE)

\* Enter on the dashboard timer slot while not editing (main.cpp:277).
timerEdit(s) ==
  beep([s EXCEPT !.isTimeEditMode = TRUE,
                 !.isTimerArmed = FALSE,
                 !.isTimerRunning = FALSE], 100, FALSE)

\* Mutant: leaving the info page resets the settings cursor.
leaveInfo_ResetsCursor(s) ==
  [s EXCEPT !.currentPage = "MENU", !.settingsMenuIndex = 0]

\* Mutant: leaving the info page stops a running countdown.
leaveInfo_StopsTimer(s) ==
  [s EXCEPT !.currentPage = "MENU", !.isTimerRunning = FALSE]

\* Mutant: Enter on the info page is ignored.
leaveInfo_Stays(s) ==
  [s EXCEPT !.currentPage = s.currentPage]

\* Enter on PAGE_INFO or PAGE_CALIBRATION (main.cpp:326-328).
leaveInfo(s) ==
  [s EXCEPT !.currentPage = "MENU"]

\* Mutant: the info entry of the menu opens the calibration page.
menuEnter_OpensCalibration(s) ==
  LET i == s.settingsMenuIndex
  IN IF i = SETTING_BACK
       THEN beep([s EXCEPT !.currentPage = "PAGE_TRIMS",
                           !.trimsMenuIndex = 0], 100, FALSE)
     ELSE IF i = SETTING_LIGHT_MODE
       THEN showSavingFeedback(saveSettings(
              [s EXCEPT !.settings.lightModeEnabled = ~@]))
     ELSE IF i = SETTING_BUZZER
       THEN showSavingFeedback(saveSettings(
              [s EXCEPT !.settings.buzzerEnabled = ~@]))
     ELSE IF i = SETTING_CH_INVERT
       THEN [s EXCEPT !.currentPage = "PAGE_CH_INVERT", !.invertMenuIndex = 0]
     ELSE IF i = SETTING_RESET_TRIMS
       THEN showSavingFeedback(saveSettings(
              [s EXCEPT !.settings.trim1 = TRIM_CENTER,
                        !.settings.trim2 = TRIM_CENTER,
                        !.settings.trim3 = TRIM_CENTER]))
     ELSE IF i = SETTING_THROTTLE_MODE
       THEN showSavingFeedback(saveSettings(
              [s EXCEPT !.settings.airplaneMode = ~@]))
     ELSE IF i = SETTING_INFO
       THEN [s EXCEPT !.currentPage = "PAGE_CALIBRATION"]
     ELSE s

\* The switch over settingsMenuIndex on the MENU page (main.cpp:297-311).
menuEnter(s) ==
  LET i == s.settingsMenuIndex
  IN IF i = SETTING_BACK
       THEN beep([s EXCEPT !.currentPage = "PAGE_TRIMS",
                           !.trimsMenuIndex = 0], 100, FALSE)
     ELSE IF i = SETTING_LIGHT_MODE
       THEN showSavingFeedback(saveSettings(
              [s EXCEPT !.settings.lightModeEnabled = ~@]))
     ELSE IF i = SETTING_BUZZER
       THEN showSavingFeedback(saveSettings(
              [s EXCEPT !.settings.buzzerEnabled = ~@]))
     ELSE IF i = SETTING_CH_INVERT
       THEN [s EXCEPT !.currentPage = "PAGE_CH_INVERT", !.invertMenuIndex = 0]
     ELSE IF i = SETTING_RESET_TRIMS
       THEN showSavingFeedback(saveSettings(
              [s EXCEPT !.settings.trim1 = TRIM_CENTER,
                        !.settings.trim2 = TRIM_CENTER,
                        !.settings.trim3 = TRIM_CENTER]))
     ELSE IF i = SETTING_THROTTLE_MODE
       THEN showSavingFeedback(saveSettings(
              [s EXCEPT !.settings.airplaneMode = ~@]))
     ELSE IF i = SETTING_INFO
       THEN [s EXCEPT !.currentPage = "PAGE_INFO"]
     ELSE s

\* Mutant: the flag is flipped in memory and never saved.
invertEnter_NoSave(s) ==
  IF s.invertMenuIndex = 8
    THEN [s EXCEPT !.currentPage = "MENU",
                   !.settingsMenuIndex = SETTING_CH_INVERT]
    ELSE beep([s EXCEPT !.settings.channelInverted[s.invertMenuIndex] = ~@],
              100, FALSE)

\* Enter on PAGE_CH_INVERT (main.cpp:315-325).
invertEnter(s) ==
  IF s.invertMenuIndex = 8
    THEN [s EXCEPT !.currentPage = "MENU",
                   !.settingsMenuIndex = SETTING_CH_INVERT]
    ELSE beep(saveSettings(
           [s EXCEPT !.settings.channelInverted[s.invertMenuIndex] = ~@]),
           100, FALSE)

\* The body of "if (enterButton.wasJustPressed())".
enterPressed(s0) ==
  LET s == beep(s0, 50, FALSE)
      p == s.currentPage
  IN IF p = "PAGE_MAIN3"
       THEN IF s.settingsMenuIndex = 2
              THEN IF s.isTimeEditMode THEN timerCommit(s) ELSE timerEdit(s)
            ELSE IF s.settingsMenuIndex = 0
              THEN [s EXCEPT !.currentPage = "PAGE_MAIN1",
                             !.settingsMenuIndex = 0]
            ELSE s
     ELSE IF p = "PAGE_MAIN1"
       THEN IF s.settingsMenuIndex = 0
              THEN [s EXCEPT !.currentPage = "PAGE_MAIN2",
                             !.settingsMenuIndex = 0]
            ELSE IF s.settingsMenuIndex = 1
              THEN [s EXCEPT !.currentPage = "PAGE_MAIN3",
                             !.settingsMenuIndex = 0]
            ELSE s
     ELSE IF p = "PAGE_MAIN2"
       THEN IF s.settingsMenuIndex = 0
              THEN [s EXCEPT !.currentPage = "PAGE_TRIMS",
                             !.trimsMenuIndex = 0]
            ELSE IF s.settingsMenuIndex = 1
              THEN [s EXCEPT !.currentPage = "PAGE_MAIN1",
                             !.settingsMenuIndex = 0]
            ELSE s
     ELSE IF p = "PAGE_TRIMS"
       THEN IF s.trimsMenuIndex = 0
              THEN showSavingFeedback(saveSettings(s))
            ELSE IF s.trimsMenuIndex = 1
              THEN [s EXCEPT !.currentPage = "MENU", !.settingsMenuIndex = 0]
            ELSE IF s.trimsMenuIndex = 2
              THEN [s EXCEPT !.currentPage = "PAGE_MAIN2",
                             !.settingsMenuIndex = 0]
            ELSE s
     ELSE IF p = "MENU" THEN menuEnter(s)
     ELSE IF p = "PAGE_CH_INVERT" THEN invertEnter(s)
     ELSE IF p = "PAGE_INFO" \/ p = "PAGE_CALIBRATION" THEN leaveInfo(s)
     ELSE s

\* handleNavigationButtons(); up, down and enter are what the three
\* wasJustPressed() reads return in this iteration.
handleNavigationButtons(s, up, down, enter) ==
  LET cmi == currentMaxIndex(s.currentPage)
      s1  == IF up THEN upPressed(s, cmi) ELSE s
      s2  == IF down THEN downPressed(s1, cmi) ELSE s1
  IN IF enter THEN enterPressed(s2) ELSE s2

\* Mutant: the countdown expires only after the duration has been exceeded.
handleTimerLogic_StrictExpiry(s) ==
  IF ~s.isTimerRunning
    THEN s
    ELSE LET totalTimerDuration == s.selectedTimerMinutes * 60000
             elapsedTime == U32Diff(s.millis, s.countdownStartMillis)
         IN IF elapsedTime > totalTimerDuration
              THEN beep(beep([s EXCEPT !.timerRemainingMillis = 0,
                                       !.isTimerRunning = FALSE,
                                       !.isTimerArmed = FALSE,
                                       !.expiryAlert = TRUE],
                             500, TRUE), 500, TRUE)
              ELSE [s EXCEPT !.timerRemainingMillis =
                                totalTimerDuration - elapsedTime]

\* handleTimerLogic() (handleCountdownTimer() has no effect).
handleTimerLogic(s) ==
  IF ~s.isTimerRunning
    THEN s
    ELSE LET totalTimerDuration == s.selectedTimerMinutes * 60000
             elapsedTime == U32Diff(s.millis, s.countdownStartMillis)
         IN IF elapsedTime >= totalTimerDuration
              THEN beep(beep([s EXCEPT !.timerRemainingMillis = 0,
                                       !.isTimerRunning = FALSE,
                                       !.isTimerArmed = FALSE,
                                       !.expiryAlert = TRUE],
                             500, TRUE), 500, TRUE)
              ELSE [s EXCEPT !.timerRemainingMillis =
                                totalTimerDuration - elapsedTime]

\* Mutant: the countdown is evaluated before the navigation buttons.
loopUI_TimerFirst(s, up, down, enter) ==
  LET k == handleTimerLogic([s EXCEPT !.delayed = 0, !.expiryAlert = FALSE,
                                      !.tones = 0, !.forcedTones = 0,
                                      !.enterSeen = enter,
                                      !.heldSeen = {}])
      n == handleNavigationButtons([k EXCEPT !.delayed = 0], up, down, enter)
  IN [n EXCEPT !.navDelayed = @ + n.delayed, !.delayed = @ + k.delayed]

\* Steps 3 of loop() with every trim button idle (handleTrimButtons is then
\* without effect): navigation, then the countdown.
loopUI(s, up, down, enter) ==
  LET n == handleNavigationButtons(
             [s EXCEPT !.delayed = 0, !.expiryAlert = FALSE,
                       !.tones = 0, !.forcedTones = 0, !.enterSeen = enter,
                       !.heldSeen = {}],
             up, down, enter)
  IN handleTimerLogic([n EXCEPT !.navDelayed = @ + n.delayed])

(***************************************************************************)
(* Battery monitor and low-battery alarm.  batteryVoltage is held in units *)
(* of 0.1 microvolt, so that the float conversion factor                   *)
(* (3.3 / 4095.0) * ((22.0 + 6.8) / 6.8) * 1.125 = 0.0038397 V per ADC     *)
(* count is the integer 38397 and the comparisons of the code keep their   *)
(* outcome for every 12-bit reading.  The alarm's globals are passed as a  *)
(* record a.                                                               *)
(***************************************************************************)
VOLTAGE_CONVERSION_FACTOR == 38397

LOW_BATT_WARNING_VOLTAGE == 64000000

DISCONNECT_FLOOR_VOLTAGE == 40000000

ADC_NOISE_FLOOR == 100

\* loop() step 2: the voltage follows the reading unless the reading is
\* at or below 100 counts.
readBattery(a, adcValue) ==
  IF adcValue > ADC_NOISE_FLOOR
    THEN [a EXCEPT !.batteryVoltage = adcValue * VOLTAGE_CONVERSION_FACTOR]
    ELSE a

\* The condition of handleLowBatteryAlarm (main.cpp:151).
lowBatteryCondition(v) ==
  v < LOW_BATT_WARNING_VOLTAGE /\ v > DISCONNECT_FLOOR_VOLTAGE

\* Mutant of the pattern: the first tone is cut after 100 ms.
alarmPattern_ShortTone(a, currentTime) ==
  LET elapsed == U32Diff(currentTime, a.lastBeepTime)
      p == a.beepPhase
  IN IF p = 0
       THEN [a EXCEPT !.buzzerPin = HIGH, !.lastBeepTime = currentTime,
                      !.beepPhase = 1]
     ELSE IF p = 1
       THEN IF elapsed >= 100
              THEN [a EXCEPT !.buzzerPin = LOW, !.lastBeepTime = currentTime,
                             !.beepPhase = 2]
              ELSE a
     ELSE IF p = 2
       THEN IF elapsed >= 50
              THEN [a EXCEPT !.lastBeepTime = currentTime, !.beepPhase = 3]
              ELSE a
     ELSE IF p = 3
       THEN [a EXCEPT !.buzzerPin = HIGH, !.lastBeepTime = currentTime,
                      !.beepPhase = 4]
     ELSE IF p = 4
       THEN IF elapsed >= 150
              THEN [a EXCEPT !.buzzerPin = LOW, !.lastBeepTime = currentTime,
                             !.beepPhase = 5]
              ELSE a
     ELSE IF p = 5
       THEN IF elapsed >= 1000 THEN [a EXCEPT !.beepPhase = 0] ELSE a
     ELSE a

\* The switch over beepPhase (main.cpp:160-168).
alarmPattern(a, currentTime) ==
  LET elapsed == U32Diff(currentTime, a.lastBeepTime)
      p == a.beepPhase
  IN IF p = 0
       THEN [a EXCEPT !.buzzerPin = HIGH, !.lastBeepTime = currentTime,
                      !.beepPhase = 1]
     ELSE IF p = 1
       THEN IF elapsed >= 150
              THEN [a EXCEPT !.buzzerPin = LOW, !.lastBeepTime = currentTime,
                             !.beepPhase = 2]
              ELSE a
     ELSE IF p = 2
       THEN IF elapsed >= 50
              THEN [a EXCEPT !.lastBeepTime = currentTime, !.beepPhase = 3]
              ELSE a
     ELSE IF p = 3
       THEN [a EXCEPT !.buzzerPin = HIGH, !.lastBeepTime = currentTime,
                      !.beepPhase = 4]
     ELSE IF p = 4
       THEN IF elapsed >= 150
              THEN [a EXCEPT !.buzzerPin = LOW, !.lastBeepTime = currentTime,
                             !.beepPhase = 5]
              ELSE a
     ELSE IF p = 5
       THEN IF elapsed >= 1000 THEN [a EXCEPT !.beepPhase = 0] ELSE a
     ELSE a

\* Mutant: leaving the condition silences the buzzer but keeps the phase.
handleLowBatteryAlarm_KeepsPhase(a, currentTime) ==
  IF lowBatteryCondition(a.batteryVoltage)
    THEN alarmPattern([a EXCEPT !.lowBatteryWarningActive = TRUE],
                      currentTime)
    ELSE [a EXCEPT !.lowBatteryWarningActive = FALSE,
                   !.buzzerPin = LOW]

\* handleLowBatteryAlarm() (main.cpp:150-169).
handleLowBatteryAlarm(a, currentTime) ==
  IF lowBatteryCondition(a.batteryVoltage)
    THEN alarmPattern([a EXCEPT !.lowBatteryWarningActive = TRUE],
                      currentTime)
    ELSE [a EXCEPT !.lowBatteryWarningActive = FALSE,
                   !.buzzerPin = LOW,
                   !.beepPhase = 0]

(***************************************************************************)
(* Input mapping (loop() step 4).                                          *)
(***************************************************************************)
\* C integer division: the quotient truncated toward zero (b # 0).
CDiv(a, b) ==
  IF (a >= 0) = (b > 0) THEN a \div b ELSE -((-a) \div b)

\* Arduino constrain(amt, low, high).
constrain(amt, low, high) ==
  IF amt < low THEN low ELSE IF amt > high THEN high ELSE amt

\* Arduino map(x, in_min, in_max, out_min, out_max), long arithmetic.
map(x, in_min, in_max, out_min, out_max) ==
  CDiv((x - in_min) * (out_max - out_min), in_max - in_min) + out_min

\* Mutant: the raw value is not constrained to [lower, upper].
Border_Map_NoConstrain(val, lower, middle, upper, reverse) ==
  LET v == IF val < middle
             THEN map(val, lower, middle, 0, 128)
             ELSE map(val, middle, upper, 128, 255)
  IN IF reverse THEN 255 - v ELSE v

\* Border_Map() (main.cpp:129-136).
Border_Map(val, lower, middle, upper, reverse) ==
  LET c == constrain(val, lower, upper)
      v == IF c < middle
             THEN map(c, lower, middle, 0, 128)
             ELSE map(c, middle, upper, 128, 255)
  IN IF reverse THEN 255 - v ELSE v

\* Conversion of an int to uint8_t.
U8(x) ==
  x % 256

\* Mutant: channel inversion is skipped in airplane mode.
throttleChannel_NoInvertInAirplane(rawThrottle, airplaneMode, inverted) ==
  LET mappedThrottle ==
        U8(IF airplaneMode
             THEN IF rawThrottle < 2048
                    THEN 0
                    ELSE map(rawThrottle, 2048, 4095, 0, 255)
             ELSE Border_Map(rawThrottle, 0, 2047, 4095, FALSE))
  IN U8(IF inverted /\ ~airplaneMode
          THEN 255 - mappedThrottle ELSE mappedThrottle)

\* Throttle Logic of loop() (main.cpp:423-441): data.throttle from the raw
\* reading, settings.airplaneMode and settings.channelInverted[2].
throttleChannel(rawThrottle, airplaneMode, inverted) ==
  LET mappedThrottle ==
        U8(IF airplaneMode
             THEN IF rawThrottle < 2048
                    THEN 0
                    ELSE map(rawThrottle, 2048, 4095, 0, 255)
             ELSE Border_Map(rawThrottle, 0, 2047, 4095, FALSE))
  IN U8(IF inverted THEN 255 - mappedThrottle ELSE mappedThrottle)

(***************************************************************************)
(* handleTrimButtons and the rest of loop(): mapping and the radio.        *)
(***************************************************************************)
TRIM_STEP == 5

TRIM_SPEED_DELAY == 50

SEND_INTERVAL == 4

\* The six trim buttons: 1, 3, 5 raise trim1, trim2, trim3; 2, 4, 6 lower.
TrimButtons == 1 .. 6

\* The field of settings a trim button adjusts.
trimField(b) ==
  IF b <= 2 THEN "trim1" ELSE IF b <= 4 THEN "trim2" ELSE "trim3"

\* Mutant: every adjustment is written to the EEPROM at once.
trimButton_Saves(s, b, pressed, held, canAdjust) ==
  LET s1 == IF b \in pressed THEN beep(s, 20, FALSE) ELSE s
      f  == trimField(b)
      v  == s1.settings[f]
  IN IF b \in held /\ canAdjust
       THEN IF b % 2 = 1
              THEN IF v < MAX_TRIM_VALUE
                     THEN saveSettings(
                            [s1 EXCEPT !.settings[f] = v + TRIM_STEP,
                                       !.lastTrimTime = s1.millis])
                     ELSE s1
              ELSE IF v > MIN_TRIM_VALUE
                     THEN saveSettings(
                            [s1 EXCEPT !.settings[f] = v - TRIM_STEP,
                                       !.lastTrimTime = s1.millis])
                     ELSE s1
       ELSE s1

\* The two statements of handleTrimButtons for trim button b: the click
\* beep, and the adjustment while the button is held.
trimButton(s, b, pressed, held, canAdjust) ==
  LET s1 == IF b \in pressed THEN beep(s, 20, FALSE) ELSE s
      f  == trimField(b)
      v  == s1.settings[f]
  IN IF b \in held /\ canAdjust
       THEN IF b % 2 = 1
              THEN IF v < MAX_TRIM_VALUE
                     THEN [s1 EXCEPT !.settings[f] = v + TRIM_STEP,
                                     !.lastTrimTime = s1.millis]
                     ELSE s1
              ELSE IF v > MIN_TRIM_VALUE
                     THEN [s1 EXCEPT !.settings[f] = v - TRIM_STEP,
                                     !.lastTrimTime = s1.millis]
                     ELSE s1
       ELSE s1

\* Mutant: the repeat throttle is missing.
handleTrimButtons_NoThrottle(s, pressed, held) ==
  LET canAdjust == TRUE
      t(x, b)   == trimButton(x, b, pressed, held, canAdjust)
  IN t(t(t(t(t(t(s, 1), 2), 3), 4), 5), 6)

\* handleTrimButtons(): pressed is the set of trim buttons whose
\* wasJustPressed() is true, held the set whose isBeingHeld() is true.
handleTrimButtons(s, pressed, held) ==
  LET canAdjust == U32Diff(s.millis, s.lastTrimTime) >= TRIM_SPEED_DELAY
      t(x, b)   == trimButton(x, b, pressed, held, canAdjust)
  IN t(t(t(t(t(t(s, 1), 2), 3), 4), 5), 6)

\* ResetData(): the packet before the first mapping.
ResetData ==
  [ throttle |-> 0, pitch |-> 128, roll |-> 128, yaw |-> 128,
    aux1 |-> 128, aux2 |-> 128, aux3 |-> 0, aux4 |-> 0 ]

\* Step 4 of loop(): the packet made of the raw samples under the settings.
mapChannels(raw, st) ==
  [ roll     |-> U8(Border_Map(raw.roll, 0, st.trim1, 4095,
                               ~st.channelInverted[0])),
    pitch    |-> U8(Border_Map(raw.pitch, 0, st.trim2, 4095,
                               ~st.channelInverted[1])),
    yaw      |-> U8(Border_Map(raw.yaw, 0, st.trim3, 4095,
                               ~st.channelInverted[3])),
    aux1     |-> U8(Border_Map(raw.aux1, 0, 2048, 4095,
                               ~st.channelInverted[4])),
    aux2     |-> U8(Border_Map(raw.aux2, 0, 2048, 4095,
                               ~st.channelInverted[5])),
    throttle |-> throttleChannel(raw.throttle, st.airplaneMode,
                                 st.channelInverted[2]),
    aux3     |-> BoolByte(IF st.channelInverted[6]
                            THEN ~raw.aux3 ELSE raw.aux3),
    aux4     |-> BoolByte(IF st.channelInverted[7]
                            THEN ~raw.aux4 ELSE raw.aux4) ]

\* Mutant: the channels are mapped before the buttons are handled.
loopInputs_MapFirst(s, up, down, enter, pressed, held, raw) ==
  LET r == [s EXCEPT !.delayed = 0, !.tones = 0, !.forcedTones = 0,
                     !.sends = 0]
      m == [r EXCEPT !.raw = raw, !.data = mapChannels(raw, r.settings)]
      t == handleTrimButtons(m, pressed, held)
      u == loopUI(t, up, down, enter)
  IN [u EXCEPT !.delayed = @ + t.delayed, !.tones = @ + t.tones,
               !.heldSeen = held]

\* Steps 1 to 4 of loop() with the battery sense pin reading no voltage:
\* the buttons' events, handleTrimButtons, navigation and countdown, then
\* the mapping of the raw samples taken after them.
loopInputs(s, up, down, enter, pressed, held, raw) ==
  LET r == [s EXCEPT !.delayed = 0, !.tones = 0, !.forcedTones = 0,
                     !.sends = 0]
      t == handleTrimButtons(r, pressed, held)
      u == loopUI(t, up, down, enter)
      v == [u EXCEPT !.delayed = @ + t.delayed, !.tones = @ + t.tones,
                     !.heldSeen = held]
  IN [v EXCEPT !.raw = raw, !.data = mapChannels(raw, v.settings)]

\* Mutant: a failed transmission is tried again in the next iteration.
sendRadioData_Retry(s, ok) ==
  [s EXCEPT !.sent = s.data, !.sends = @ + 1, !.sendOk = ok,
            !.lastSendTime = IF ok THEN @ ELSE 0]

\* sendRadioData(data): radio.write(), its result dropped.
sendRadioData(s, ok) ==
  [s EXCEPT !.sent = s.data, !.sends = @ + 1, !.sendOk = ok]

\* Mutant: a packet goes out in every iteration.
loopRadio_EveryIteration(s, ok) ==
  sendRadioData([s EXCEPT !.lastSendTime = s.millis], ok)

\* Step 5 of loop(): the packet is handed to the sender when the send
\* interval has elapsed.
loopRadio(s, ok) ==
  LET currentTime == s.millis
  IN IF U32Diff(currentTime, s.lastSendTime) >= SEND_INTERVAL
       THEN sendRadioData([s EXCEPT !.lastSendTime = currentTime], ok)
       ELSE s

\* Step 6 of loop(): the page is handed to the renderer when the display
\* interval has elapsed; currentTime is the value read in step 5.
loopDisplay(last, page, currentTime) ==
  LET dynamicInterval == IF page = "PAGE_MAIN3" THEN 100 ELSE 40
  IN IF U32Diff(currentTime, last) >= dynamicInterval
       THEN [lastDisplayTime |-> currentTime, draws |-> 1]
       ELSE [lastDisplayTime |-> last, draws |-> 0]

(***************************************************************************)
(* State.                                                                  *)
(***************************************************************************)
VARIABLES
  \* globals of main.cpp
  currentPage, trimsMenuIndex, settingsMenuIndex, invertMenuIndex,
  selectedTimerMinutes, isTimerArmed, isTimerRunning, timerRemainingMillis,
  isTimeEditMode, countdownStartMillis, settings,
  \* the environment: the millisecond clock and the durable record
  millis, eeprom,
  \* observations: milliseconds the last loop iteration spent in delay(),
  \* the number of EEPROM block writes since power-up, and whether the last
  \* loop iteration sounded the timer's expiry alert
  delayed, eepromWrites, expiryAlert,
  \* observation: milliseconds handleNavigationButtons spent in delay()
  \* since setup()
  navDelayed,
  \* one Button object, the phase of the iteration that uses it, and
  \* observations of its raw samples and of the calls made on it
  btn, bpc, sampled, sampleLevel, sampleRunStart, runCounted, shortLowSeen,
  qualifiedLowRuns, presses, releases, trueReads, lastCall, lastRet,
  \* the battery monitor and the alarm (globals of main.cpp), the level of
  \* the buzzer pin, and observations: the time of the pin's last change
  \* and the time the alarm condition last became true
  batteryVoltage, lowBatteryWarningActive, beepPhase, lastBeepTime,
  buzzerPin, pinSince, alarmSince,
  \* one call of a mapping function: its arguments, whether it has
  \* returned, and what it returned
  mapCall, mapDone, mapRet,
  \* observation: the last thing done to the settings record ("none" before
  \* setup() has loaded it)
  storeOp,
  \* observations of the last loop iteration: the tones beep() sounded, those
  \* of them that were forced, whether Enter's click was handled, and the
  \* trim buttons that were held
  tones, forcedTones, enterSeen, heldSeen,
  \* handleTrimButtons' static lastTrimTime, the radio's globals, and
  \* observations: the raw samples of the last mapping, the packets handed
  \* to the sender in the last iteration, the last packet handed over and
  \* what radio.write() returned for it
  lastTrimTime, lastSendTime, data, rawSamples, sends, sent, sendOk,
  \* where the program is (setup(), the two halves of a loop() iteration, or
  \* halted), and observation: the initialisation that failed
  pc, bootFault,
  \* one call of EEPROM_write: its arguments, the loop's eeAddress and i,
  \* and observation: the transmissions made so far
  eeWrite,
  \* the display's timestamp, observation: the pages handed to the renderer
  \* in the last iteration, and the part of the program driven across the
  \* wrap of the clock ("none" elsewhere)
  lastDisplayTime, draws, wrapUnit

uiVars ==
  << currentPage, trimsMenuIndex, settingsMenuIndex, invertMenuIndex,
     selectedTimerMinutes, isTimerArmed, isTimerRunning, timerRemainingMillis,
     isTimeEditMode, countdownStartMillis, settings, eeprom,
     delayed, eepromWrites, expiryAlert, navDelayed,
     tones, forcedTones, enterSeen, heldSeen,
     lastTrimTime, lastSendTime, data, rawSamples, sends, sent, sendOk >>

btnVars ==
  << btn, bpc, sampled, sampleLevel, sampleRunStart, runCounted, shortLowSeen,
     qualifiedLowRuns, presses, releases, trueReads, lastCall, lastRet >>

alarmVars ==
  << batteryVoltage, lowBatteryWarningActive, beepPhase, lastBeepTime,
     buzzerPin, pinSince, alarmSince >>

\* The state outside the navigation slice and the single Button.
mapVars == << mapCall, mapDone, mapRet >>

storeVars == << storeOp >>

bootVars == << pc, bootFault >>

wrapVars == << lastDisplayTime, draws, wrapUnit >>

probeVars == << eeWrite, wrapVars >>

extVars == << alarmVars, mapVars, storeVars, bootVars, probeVars >>

vars == << uiVars, btnVars, millis, extVars >>

\* The globals as one record, the argument of the handlers above.
G ==
  [ currentPage          |-> currentPage,
    trimsMenuIndex       |-> trimsMenuIndex,
    settingsMenuIndex    |-> settingsMenuIndex,
    invertMenuIndex      |-> invertMenuIndex,
    selectedTimerMinutes |-> selectedTimerMinutes,
    isTimerArmed         |-> isTimerArmed,
    isTimerRunning       |-> isTimerRunning,
    timerRemainingMillis |-> timerRemainingMillis,
    isTimeEditMode       |-> isTimeEditMode,
    countdownStartMillis |-> countdownStartMillis,
    settings             |-> settings,
    millis               |-> millis,
    eeprom               |-> eeprom,
    delayed              |-> delayed,
    eepromWrites         |-> eepromWrites,
    expiryAlert          |-> expiryAlert,
    navDelayed           |-> navDelayed,
    tones                |-> tones,
    forcedTones          |-> forcedTones,
    enterSeen            |-> enterSeen,
    heldSeen             |-> heldSeen,
    lastTrimTime         |-> lastTrimTime,
    lastSendTime         |-> lastSendTime,
    data                 |-> data,
    raw                  |-> rawSamples,
    sends                |-> sends,
    sent                 |-> sent,
    sendOk               |-> sendOk ]

(***************************************************************************)
(* Bounds of the model.                                                    *)
(***************************************************************************)
\* Milliseconds of loop() explored after setup().
LoopHorizon == 500

\* EEPROM block writes explored since power-up.
MaxWrites == 2

\* Milliseconds explored for the single Button.
ButtonHorizon == 400

\* Time between two calls on the Button.
ButtonDeltas == {25, 50}

\* setup() returns after delay(500), the 2 s logo and the 3 s splash screen.
SetupMillis == 500 + 2000 + 3000

\* Records the EEPROM may hold at power-up: what a blank chip (all bytes
\* 0xFF) reads as, and a record saved earlier with the buzzer muted.
BlankRecord ==
  RadioSettings(-1, -1, -1, TRUE, TRUE, [i \in Channels |-> TRUE], 255, TRUE)

MutedRecord ==
  RadioSettings(TRIM_CENTER, TRIM_CENTER, TRIM_CENTER, FALSE, FALSE,
                [i \in Channels |-> FALSE], 0, FALSE)

StoredRecords == {BlankRecord, MutedRecord}

(***************************************************************************)
(* Initial states: the globals' initialisers and the effect of setup().    *)
(***************************************************************************)
InitButton(debounceDelay) ==
  /\ btn = Button(debounceDelay)
  /\ bpc = "update"
  /\ sampled = FALSE
  /\ sampleLevel = HIGH
  /\ sampleRunStart = 0
  /\ runCounted = FALSE
  /\ shortLowSeen = FALSE
  /\ qualifiedLowRuns = 0
  /\ presses = 0
  /\ releases = 0
  /\ trueReads = 0
  /\ lastCall = "none"
  /\ lastRet = FALSE

\* Sticks centred, throttle down, both switches off.
SticksAtRest ==
  [ roll |-> 2048, pitch |-> 2048, yaw |-> 2048, throttle |-> 0,
    aux1 |-> 2048, aux2 |-> 2048, aux3 |-> FALSE, aux4 |-> FALSE ]

\* The initialisers of the trim repeat and of the radio's globals, data as
\* ResetData() leaves it, and nothing observed yet.
InitRadio ==
  /\ tones = 0
  /\ forcedTones = 0
  /\ enterSeen = FALSE
  /\ heldSeen = {}
  /\ lastTrimTime = 0
  /\ lastSendTime = 0
  /\ data = ResetData
  /\ rawSamples = SticksAtRest
  /\ sends = 0
  /\ sent = ResetData
  /\ sendOk = TRUE

InitUI(stored) ==
  LET l == loadSettings(RecordBytes(stored))
  IN /\ currentPage = "PAGE_MAIN3"
     /\ trimsMenuIndex = 0
     /\ settingsMenuIndex = 0
     /\ invertMenuIndex = 0
     /\ selectedTimerMinutes = 0
     /\ isTimerArmed = FALSE
     /\ isTimerRunning = FALSE
     /\ timerRemainingMillis = 0
     /\ isTimeEditMode = FALSE
     /\ countdownStartMillis = 0
     /\ settings = [l.settings EXCEPT !.airplaneMode = TRUE]
     /\ eeprom = l.eeprom
     /\ eepromWrites = l.eepromWrites
     /\ delayed = 0
     /\ expiryAlert = FALSE
     /\ navDelayed = 0
     /\ InitRadio

\* The alarm's globals as initialised, the pin as setupBuzzer() leaves it.
InitAlarm ==
  /\ batteryVoltage = 0
  /\ lowBatteryWarningActive = FALSE
  /\ beepPhase = 0
  /\ lastBeepTime = 0
  /\ buzzerPin = LOW
  /\ pinSince = 0
  /\ alarmSince = 0

\* No mapping call is in progress.
NoMapCall ==
  [fn |-> "none", val |-> 0, lower |-> 0, middle |-> 0, upper |-> 0,
   reverse |-> FALSE, airplaneMode |-> FALSE]

InitMapIdle ==
  /\ mapCall = NoMapCall
  /\ mapDone = FALSE
  /\ mapRet = 0

InitStoreIdle == storeOp = "none"

NoEepromWrite ==
  [eeAddress0 |-> 0, len |-> 0, eeAddress |-> 0, i |-> 0, chunks |-> << >>]

\* lastDisplayTime as initialised, nothing drawn, no part driven.
InitWrapIdle ==
  /\ lastDisplayTime = 0
  /\ draws = 0
  /\ wrapUnit = "none"

InitProbeIdle ==
  /\ eeWrite = NoEepromWrite
  /\ InitWrapIdle

\* setup() has returned.
InitBooted ==
  /\ pc = "inputs"
  /\ bootFault = "none"

InitExt ==
  /\ InitAlarm
  /\ InitMapIdle
  /\ InitStoreIdle
  /\ InitProbeIdle
  /\ InitBooted

Init ==
  /\ millis = SetupMillis
  /\ \E stored \in StoredRecords : InitUI(stored)
  /\ InitButton(NAV_DEBOUNCE)
  /\ InitExt

(***************************************************************************)
(* loop(): one iteration.  The click flags of the three navigation buttons *)
(* are read (and thereby cleared) in every iteration, so what an iteration *)
(* sees of them is whether update() registered a release in it.  The clock *)
(* is advanced by the delay() calls of the iteration; an iteration without *)
(* one completes within the clock's resolution.                            *)
(***************************************************************************)
Becomes(s1) ==
  /\ currentPage' = s1.currentPage
  /\ trimsMenuIndex' = s1.trimsMenuIndex
  /\ settingsMenuIndex' = s1.settingsMenuIndex
  /\ invertMenuIndex' = s1.invertMenuIndex
  /\ selectedTimerMinutes' = s1.selectedTimerMinutes
  /\ isTimerArmed' = s1.isTimerArmed
  /\ isTimerRunning' = s1.isTimerRunning
  /\ timerRemainingMillis' = s1.timerRemainingMillis
  /\ isTimeEditMode' = s1.isTimeEditMode
  /\ countdownStartMillis' = s1.countdownStartMillis
  /\ settings' = s1.settings
  /\ eeprom' = s1.eeprom
  /\ eepromWrites' = s1.eepromWrites
  /\ delayed' = s1.delayed
  /\ expiryAlert' = s1.expiryAlert
  /\ navDelayed' = s1.navDelayed
  /\ tones' = s1.tones
  /\ forcedTones' = s1.forcedTones
  /\ enterSeen' = s1.enterSeen
  /\ heldSeen' = s1.heldSeen
  /\ lastTrimTime' = s1.lastTrimTime
  /\ lastSendTime' = s1.lastSendTime
  /\ data' = s1.data
  /\ rawSamples' = s1.raw
  /\ sends' = s1.sends
  /\ sent' = s1.sent
  /\ sendOk' = s1.sendOk
  /\ millis' = s1.millis

LoopIteration(up, down, enter) ==
    LET s1 == loopUI(G, up, down, enter)
    IN /\ s1.millis <= SetupMillis + LoopHorizon
       /\ s1.eepromWrites <= MaxWrites
       /\ Becomes(s1)
       /\ UNCHANGED << btnVars, extVars >>

Next ==
  \E up \in BOOLEAN, down \in BOOLEAN, enter \in BOOLEAN :
    LoopIteration(up, down, enter)

Spec == Init /\ [][Next]_vars

(***************************************************************************)
(* One Button as loop() drives it: update() with a fresh sample, then the  *)
(* wasJustPressed() read of the same iteration; isBeingHeld() may be       *)
(* polled at any point, and the clock advances between the calls.  Beside  *)
(* the object the model keeps what an observer of the pin sees: the level  *)
(* of the current run of equal samples and the time of its first sample,   *)
(* whether a LOW run ended before it lasted the debounce window, the LOW   *)
(* runs that lasted at least the window, and the held/released             *)
(* transitions and true reads so far.                                      *)
(***************************************************************************)
ButtonTick(d) ==
  /\ millis + d <= SetupMillis + ButtonHorizon
  /\ millis' = U32Sum(millis, d)
  /\ UNCHANGED << uiVars, btnVars, extVars >>

ButtonUpdate(reading) ==
  LET b1        == Button_update(btn, reading, millis)
      newRun    == ~sampled \/ reading # sampleLevel
      runStart  == IF newRun THEN millis ELSE sampleRunStart
      counted   == IF newRun THEN FALSE ELSE runCounted
      qualifies == reading = LOW /\ millis - runStart >= btn.debounceDelay
  IN /\ bpc = "update"
     /\ btn' = b1
     /\ bpc' = "read"
     /\ sampled' = TRUE
     /\ sampleLevel' = reading
     /\ sampleRunStart' = runStart
     /\ runCounted' = (counted \/ qualifies)
     /\ shortLowSeen' =
          (shortLowSeen \/ (sampled /\ sampleLevel = LOW /\ reading = HIGH
                                    /\ ~runCounted))
     /\ qualifiedLowRuns' =
          qualifiedLowRuns + (IF qualifies /\ ~counted THEN 1 ELSE 0)
     /\ presses' = presses +
          (IF ~btn.buttonIsCurrentlyPressed /\ b1.buttonIsCurrentlyPressed
             THEN 1 ELSE 0)
     /\ releases' = releases +
          (IF btn.buttonIsCurrentlyPressed /\ ~b1.buttonIsCurrentlyPressed
             THEN 1 ELSE 0)
     /\ lastCall' = "update"
     /\ lastRet' = FALSE
     /\ UNCHANGED << uiVars, millis, trueReads, extVars >>

ButtonWasJustPressed ==
  LET r == Button_wasJustPressed(btn)
  IN /\ bpc = "read"
     /\ btn' = r.b
     /\ bpc' = "update"
     /\ lastCall' = "wasJustPressed"
     /\ lastRet' = r.ret
     /\ trueReads' = trueReads + (IF r.ret THEN 1 ELSE 0)
     /\ UNCHANGED << uiVars, millis, sampled, sampleLevel, sampleRunStart,
                     runCounted, shortLowSeen, qualifiedLowRuns, presses, releases,
                     extVars >>

ButtonIsBeingHeld ==
  LET r == Button_isBeingHeld(btn)
  IN /\ btn' = r.b
     /\ lastCall' = "isBeingHeld"
     /\ lastRet' = r.ret
     /\ UNCHANGED << uiVars, millis, bpc, sampled, sampleLevel, sampleRunStart,
                     runCounted, shortLowSeen, qualifiedLowRuns, presses, releases,
                     trueReads, extVars >>

InitB ==
  /\ millis = SetupMillis
  /\ InitUI(MutedRecord)
  /\ \E d \in {NAV_DEBOUNCE, TRIM_DEBOUNCE} : InitButton(d)
  /\ InitExt

NextB ==
  \/ \E d \in ButtonDeltas : ButtonTick(d)
  \/ \E reading \in {LOW, HIGH} : ButtonUpdate(reading)
  \/ ButtonWasJustPressed
  \/ ButtonIsBeingHeld

SpecButton == InitB /\ [][NextB]_vars

(***************************************************************************)
(* The countdown over minutes.  The operator stays on the dashboard; d is  *)
(* the time that passed since the previous iteration of loop() returned    *)
(* (the rest of loop() and any number of iterations that changed nothing   *)
(* but the projected remaining time).                                      *)
(***************************************************************************)
\* Milliseconds explored after setup() for the countdown.
TimerHorizon == 125000

\* Milliseconds of delay() in navigation explored for the countdown.
TimerBlockBudget == 700

\* Time between two iterations of loop() that the countdown model explores.
TimerDeltas == {0, 119850, 119900, 120000}

TimerLoopIteration(d, up, down, enter) ==
    LET s1 == loopUI([G EXCEPT !.millis = U32Sum(millis, d)], up, down, enter)
    IN /\ s1.millis <= SetupMillis + TimerHorizon
       /\ s1.navDelayed <= TimerBlockBudget
       /\ d > 0 => isTimerRunning
       /\ s1.currentPage = "PAGE_MAIN3"
       /\ Becomes(s1)
       /\ UNCHANGED << btnVars, extVars >>

NextT ==
  \E d \in TimerDeltas, up \in BOOLEAN, down \in BOOLEAN, enter \in BOOLEAN :
    TimerLoopIteration(d, up, down, enter)

SpecTimer == Init /\ [][NextT]_vars

(***************************************************************************)
(* The low-battery alarm as loop() drives it with every button idle: each  *)
(* iteration reads the battery ADC and calls handleLowBatteryAlarm(); d is *)
(* the time since the previous iteration (0: within the same millisecond). *)
(***************************************************************************)
\* Milliseconds explored after setup() for the alarm.
AlarmHorizon == 1600

\* Time between two iterations of loop() that the alarm model explores.
AlarmDeltas == {0, 50}

\* Battery ADC readings: below the noise floor, and on both sides of the
\* 4.0 V floor (1041/1042) and of the 6.4 V warning threshold (1666/1667).
AdcReadings == {50, 1041, 1042, 1666, 1667}

\* The alarm's globals and the buzzer pin as one record.
AlarmG ==
  [ batteryVoltage          |-> batteryVoltage,
    lowBatteryWarningActive |-> lowBatteryWarningActive,
    beepPhase               |-> beepPhase,
    lastBeepTime            |-> lastBeepTime,
    buzzerPin               |-> buzzerPin ]

AlarmLoopIteration(d, adcValue) ==
  LET now == U32Sum(millis, d)
      a1  == handleLowBatteryAlarm(readBattery(AlarmG, adcValue), now)
  IN /\ now <= SetupMillis + AlarmHorizon
     /\ millis' = now
     /\ batteryVoltage' = a1.batteryVoltage
     /\ lowBatteryWarningActive' = a1.lowBatteryWarningActive
     /\ beepPhase' = a1.beepPhase
     /\ lastBeepTime' = a1.lastBeepTime
     /\ buzzerPin' = a1.buzzerPin
     /\ pinSince' = IF a1.buzzerPin # buzzerPin THEN now ELSE pinSince
     /\ alarmSince' = IF a1.lowBatteryWarningActive /\ ~lowBatteryWarningActive
                        THEN now ELSE alarmSince
     /\ UNCHANGED << uiVars, btnVars, mapVars, storeVars, bootVars, probeVars >>

NextA ==
  \E d \in AlarmDeltas, adcValue \in AdcReadings :
    AlarmLoopIteration(d, adcValue)

SpecAlarm == Init /\ [][NextA]_vars

(***************************************************************************)
(* The mapping functions applied to arguments drawn from bounded sets:     *)
(* Border_Map with bounds lower < middle < upper, around the 12-bit range  *)
(* of the ADC and on a small grid that includes negative bounds, and the   *)
(* throttle channel for every 12-bit reading in both modes, inverted or    *)
(* not.                                                                    *)
(***************************************************************************)
\* The largest reading of the 12-bit ADC (analogReadResolution(12)).
ADC_MAX == 4095

\* Centres tried between the bounds 0 and 4095.
MapCentres == {1, 2047, 2048, 4094}

\* Values of the small grid of bounds.
MapGrid == {-3, 0, 1, 4, 6}

BorderMapCalls ==
  { [fn |-> "Border_Map", val |-> v, lower |-> 0, middle |-> m,
     upper |-> ADC_MAX, reverse |-> r, airplaneMode |-> FALSE] :
      v \in -1 .. (ADC_MAX + 1), m \in MapCentres, r \in BOOLEAN }
  \cup
  { [fn |-> "Border_Map", val |-> v, lower |-> b[1], middle |-> b[2],
     upper |-> b[3], reverse |-> r, airplaneMode |-> FALSE] :
      v \in -5 .. 8,
      b \in {x \in MapGrid \X MapGrid \X MapGrid : x[1] < x[2] /\ x[2] < x[3]},
      r \in BOOLEAN }

ThrottleCalls ==
  { [fn |-> "throttle", val |-> v, lower |-> 0, middle |-> 2047,
     upper |-> ADC_MAX, reverse |-> r, airplaneMode |-> a] :
      v \in 0 .. ADC_MAX, r \in BOOLEAN, a \in BOOLEAN }

InitM ==
  /\ millis = SetupMillis
  /\ InitUI(MutedRecord)
  /\ InitButton(NAV_DEBOUNCE)
  /\ InitAlarm
  /\ mapCall \in BorderMapCalls \cup ThrottleCalls
  /\ mapDone = FALSE
  /\ mapRet = 0
  /\ InitStoreIdle
  /\ InitProbeIdle
  /\ InitBooted

BorderMapCall ==
  /\ mapCall.fn = "Border_Map"
  /\ ~mapDone
  /\ mapDone' = TRUE
  /\ mapRet' = Border_Map(mapCall.val, mapCall.lower, mapCall.middle,
                          mapCall.upper, mapCall.reverse)
  /\ UNCHANGED << uiVars, btnVars, millis, alarmVars, mapCall, storeVars,
                  bootVars, probeVars >>

ThrottleCall ==
  /\ mapCall.fn = "throttle"
  /\ ~mapDone
  /\ mapDone' = TRUE
  /\ mapRet' = throttleChannel(mapCall.val, mapCall.airplaneMode,
                               mapCall.reverse)
  /\ UNCHANGED << uiVars, btnVars, millis, alarmVars, mapCall, storeVars,
                  bootVars, probeVars >>

NextM ==
  BorderMapCall \/ ThrottleCall

SpecMap == InitM /\ [][NextM]_vars

(***************************************************************************)
(* The settings record between memory and the EEPROM: power-up with some   *)
(* image in the chip, loadSettings() in setup(), the assignment setup()    *)
(* makes after it, the handlers' assignments to the record's fields, and   *)
(* saveSettings().                                                         *)
(***************************************************************************)

\* "RadioSettings settings;": a global, zero-initialised before setup().
ZeroRecord ==
  RadioSettings(0, 0, 0, FALSE, FALSE, [i \in Channels |-> FALSE], 0, FALSE)

\* A blank chip: every byte 0xFF.
BlankBlock == [i \in 1 .. Len(RecordBytes(ZeroRecord)) |-> 255]

\* Images whose trim1 fails the validation of loadSettings() while other
\* fields hold something else than the defaults.
CorruptRecords ==
  { RadioSettings(MAX_TRIM_VALUE + 1, 7, -5, FALSE, TRUE,
                  [i \in Channels |-> i = 2], 3, TRUE),
    RadioSettings(MIN_TRIM_VALUE - 1, TRIM_CENTER, TRIM_CENTER, TRUE, FALSE,
                  [i \in Channels |-> FALSE], 0, FALSE) }

\* Images the chip may hold at power-up.
StoreBlocks ==
  {BlankBlock, RecordBytes(MutedRecord)}
    \cup { RecordBytes(rec) : rec \in CorruptRecords }

\* Records the handlers can make of the record in memory: trims at the
\* limits and the centre, inversion flags, both modes, buzzer and theme.
\* No handler assigns timerProfile.
LegalRecords ==
  { RadioSettings(t1, MAX_TRIM_VALUE - t1, TRIM_CENTER, b, ~b, inv,
                  ZeroRecord.timerProfile, a) :
      t1 \in {MIN_TRIM_VALUE, TRIM_CENTER, MAX_TRIM_VALUE},
      inv \in { [i \in Channels |-> FALSE], [i \in Channels |-> i = 2],
                [i \in Channels |-> TRUE] },
      b \in BOOLEAN, a \in BOOLEAN }

InitS ==
  /\ millis = 0
  /\ currentPage = "PAGE_MAIN3"
  /\ trimsMenuIndex = 0
  /\ settingsMenuIndex = 0
  /\ invertMenuIndex = 0
  /\ selectedTimerMinutes = 0
  /\ isTimerArmed = FALSE
  /\ isTimerRunning = FALSE
  /\ timerRemainingMillis = 0
  /\ isTimeEditMode = FALSE
  /\ countdownStartMillis = 0
  /\ settings = ZeroRecord
  /\ eeprom \in StoreBlocks
  /\ eepromWrites = 0
  /\ delayed = 0
  /\ expiryAlert = FALSE
  /\ navDelayed = 0
  /\ InitRadio
  /\ InitButton(NAV_DEBOUNCE)
  /\ InitAlarm
  /\ InitMapIdle
  /\ InitStoreIdle
  /\ InitProbeIdle
  /\ InitBooted

\* Power-up and the loadSettings() call of setup() (main.cpp:390).
StoreLoad ==
  LET l == loadSettings(eeprom)
  IN /\ Becomes([G EXCEPT !.settings = l.settings,
                          !.eeprom = l.eeprom,
                          !.eepromWrites = l.eepromWrites])
     /\ storeOp' = "load"
     /\ UNCHANGED << btnVars, alarmVars, mapVars, bootVars, probeVars >>

\* Mutant: the forced mode is saved as soon as it is set.
StoreSetupMode_Persisting ==
  /\ storeOp = "load"
  /\ Becomes(saveSettings([G EXCEPT !.settings.airplaneMode = TRUE]))
  /\ storeOp' = "setup"
  /\ UNCHANGED << btnVars, alarmVars, mapVars, bootVars, probeVars >>

\* "settings.airplaneMode = true;" after loadSettings() (main.cpp:391).
StoreSetupMode ==
  /\ storeOp = "load"
  /\ Becomes([G EXCEPT !.settings.airplaneMode = TRUE])
  /\ storeOp' = "setup"
  /\ UNCHANGED << btnVars, alarmVars, mapVars, bootVars, probeVars >>

\* The handlers' assignments to fields of the record in memory.
StoreEdit(rec) ==
  /\ storeOp \in {"setup", "edit", "save"}
  /\ Becomes([G EXCEPT !.settings =
                         [rec EXCEPT !.timerProfile = settings.timerProfile]])
  /\ storeOp' = "edit"
  /\ UNCHANGED << btnVars, alarmVars, mapVars, bootVars, probeVars >>

\* saveSettings() at a save point.
StoreSave ==
  /\ storeOp \in {"setup", "edit", "save"}
  /\ eepromWrites < MaxWrites
  /\ Becomes(saveSettings(G))
  /\ storeOp' = "save"
  /\ UNCHANGED << btnVars, alarmVars, mapVars, bootVars, probeVars >>

NextS ==
  \/ StoreLoad
  \/ StoreSetupMode
  \/ \E rec \in LegalRecords : StoreEdit(rec)
  \/ StoreSave

SpecStore == InitS /\ [][NextS]_vars

(***************************************************************************)
(* loop() in two steps, so that what the radio is handed can be told from  *)
(* what the iteration computed: steps 1 to 4 (buttons, trims, navigation,  *)
(* countdown, mapping) after d milliseconds since the last iteration, and  *)
(* step 5 (the radio).                                                     *)
(***************************************************************************)
RunInputs(d, up, down, enter, pressed, held, samples) ==
  /\ pc = "inputs"
  /\ Becomes(loopInputs([G EXCEPT !.millis = U32Sum(millis, d)],
                        up, down, enter, pressed, held, samples))
  /\ pc' = "radio"
  /\ UNCHANGED << btnVars, alarmVars, mapVars, storeVars, bootFault, probeVars >>

RunRadio(ok) ==
  /\ pc = "radio"
  /\ Becomes(loopRadio(G, ok))
  /\ pc' = "inputs"
  /\ UNCHANGED << btnVars, alarmVars, mapVars, storeVars, bootFault, probeVars >>

(***************************************************************************)
(* The trim buttons: loop() with trims near their limits and trim buttons  *)
(* held and clicked, the navigation buttons idle.                          *)
(***************************************************************************)
\* Milliseconds of loop() explored after setup().
TrimHorizon == 150

\* Time between two iterations of loop().
TrimLoopDeltas == {10, 25, 50}

\* The sets of trim buttons held in one iteration: a button alone, both
\* buttons of trim1, and buttons of two trims.
TrimHolds == { {1}, {2}, {4}, {5}, {1, 2}, {1, 4} }

\* Records saved earlier, after trim buttons had been held from the centre
\* (2048 + 5k, 2048 - 5k): trim1 near the upper limit, trim2 near the lower.
TrimRecords ==
  { RadioSettings(4093, 3, TRIM_CENTER, FALSE, FALSE,
                  [i \in Channels |-> FALSE], 0, TRUE),
    RadioSettings(4088, 8, TRIM_CENTER, TRUE, FALSE,
                  [i \in Channels |-> FALSE], 0, TRUE) }

InitTrim ==
  /\ millis = SetupMillis
  /\ \E stored \in TrimRecords : InitUI(stored)
  /\ InitButton(TRIM_DEBOUNCE)
  /\ InitExt

TrimHoldIteration(d, held) ==
  /\ RunInputs(d, FALSE, FALSE, FALSE, {}, held, SticksAtRest)
  /\ millis' <= SetupMillis + TrimHorizon

TrimClickIteration(d, b) ==
  /\ RunInputs(d, FALSE, FALSE, FALSE, {b}, {}, SticksAtRest)
  /\ millis' <= SetupMillis + TrimHorizon

NextTrim ==
  \/ \E d \in TrimLoopDeltas, held \in TrimHolds : TrimHoldIteration(d, held)
  \/ \E d \in TrimLoopDeltas, b \in {1, 4} : TrimClickIteration(d, b)
  \/ RunRadio(TRUE)

SpecTrim == InitTrim /\ [][NextTrim]_vars

(***************************************************************************)
(* The save points: loop() with single navigation clicks and a trim button *)
(* held, from the same records.                                            *)
(***************************************************************************)
\* Milliseconds of loop() explored after setup(), the time spent in the
\* delay() calls of navigation not counted.
SaveHorizon == 225

\* Milliseconds navigation may spend in delay().
SaveBlockBudget == 300

\* Time between two iterations of loop().
SaveLoopDelta == 25

\* The bounds of the model on the state an iteration leaves.
SaveBounds ==
  /\ millis' - navDelayed' <= SetupMillis + SaveHorizon
  /\ navDelayed' <= SaveBlockBudget
  /\ eepromWrites' <= MaxWrites

SaveHoldIteration(held) ==
  /\ RunInputs(SaveLoopDelta, FALSE, FALSE, FALSE, {}, held, SticksAtRest)
  /\ SaveBounds

SaveNavIteration(up, down, enter) ==
  /\ RunInputs(SaveLoopDelta, up, down, enter, {}, {}, SticksAtRest)
  /\ SaveBounds

NextSave ==
  \/ \E held \in {{1}, {4}} : SaveHoldIteration(held)
  \/ SaveNavIteration(TRUE, FALSE, FALSE)
  \/ SaveNavIteration(FALSE, TRUE, FALSE)
  \/ SaveNavIteration(FALSE, FALSE, TRUE)
  \/ RunRadio(TRUE)

SpecSave == InitTrim /\ [][NextSave]_vars

(***************************************************************************)
(* The program from power-up: setup() in two steps (up to the display's    *)
(* initialisation, then the radio and the settings), then loop() with      *)
(* navigation clicks, changing sticks and a radio that may fail.           *)
(***************************************************************************)
\* Milliseconds of loop() explored after setup(), the time spent in the
\* delay() calls of navigation not counted.
RunHorizon == 10

\* Milliseconds navigation may spend in delay().
RunBlockBudget == 100

\* Time between two iterations of loop().
RunDeltas == {1, 4}

\* Images the chip may hold at power-up.
RunBlocks == {BlankBlock, RecordBytes(MutedRecord)}

\* Raw samples of the sticks and switches.
SticksDeflected ==
  [ roll |-> 4095, pitch |-> 0, yaw |-> 3000, throttle |-> 3500,
    aux1 |-> 0, aux2 |-> 4095, aux3 |-> TRUE, aux4 |-> FALSE ]

RawSamples == {SticksAtRest, SticksDeflected}

\* Power-up: the initialisers of the globals.
InitPowerOn ==
  /\ millis = 0
  /\ currentPage = "PAGE_MAIN3"
  /\ trimsMenuIndex = 0
  /\ settingsMenuIndex = 0
  /\ invertMenuIndex = 0
  /\ selectedTimerMinutes = 0
  /\ isTimerArmed = FALSE
  /\ isTimerRunning = FALSE
  /\ timerRemainingMillis = 0
  /\ isTimeEditMode = FALSE
  /\ countdownStartMillis = 0
  /\ settings = ZeroRecord
  /\ eeprom \in RunBlocks
  /\ eepromWrites = 0
  /\ delayed = 0
  /\ expiryAlert = FALSE
  /\ navDelayed = 0
  /\ InitRadio
  /\ InitButton(NAV_DEBOUNCE)
  /\ InitAlarm
  /\ InitMapIdle
  /\ InitStoreIdle
  /\ InitProbeIdle
  /\ pc = "setup"
  /\ bootFault = "none"

\* setup() up to setupDisplay(): delay(500), then display.begin(); when it
\* fails setupDisplay() spins in for(;;), otherwise the logo and the splash
\* screen are shown.
SetupDisplay(displayOk) ==
  /\ pc = "setup"
  /\ IF displayOk
       THEN /\ Becomes([G EXCEPT !.millis = SetupMillis])
            /\ pc' = "setupLoad"
            /\ bootFault' = bootFault
       ELSE /\ Becomes([G EXCEPT !.millis = 500])
            /\ pc' = "halted"
            /\ bootFault' = "display"
  /\ UNCHANGED << btnVars, alarmVars, mapVars, storeVars, probeVars >>

\* The rest of setup(): setupRadio(), loadSettings(), the forced throttle
\* mode, ResetData().  setup() never asks the EEPROM whether it is there:
\* with a chip that does not answer, readBlock() leaves the record as it
\* was or fills it with 0xFF bytes (the library decides), nothing reaches
\* the chip, and setup() goes on.
SetupLoad(storeOk, readback) ==
  /\ pc = "setupLoad"
  /\ LET l == loadSettings(IF storeOk THEN eeprom ELSE readback)
     IN Becomes([G EXCEPT
                   !.settings = [l.settings EXCEPT !.airplaneMode = TRUE],
                   !.eeprom = IF storeOk THEN l.eeprom ELSE eeprom,
                   !.eepromWrites = l.eepromWrites,
                   !.data = ResetData])
  /\ pc' = "inputs"
  /\ bootFault' = IF storeOk THEN bootFault ELSE "store"
  /\ UNCHANGED << btnVars, alarmVars, mapVars, storeVars, probeVars >>

\* The bounds of the model on the state an iteration leaves.
RunBounds ==
  /\ millis' - navDelayed' <= SetupMillis + RunHorizon
  /\ navDelayed' <= RunBlockBudget
  /\ eepromWrites' <= MaxWrites

RunIteration(d, up, down, enter, samples) ==
  /\ RunInputs(d, up, down, enter, {}, {}, samples)
  /\ RunBounds

NextRun ==
  \/ \E displayOk \in BOOLEAN : SetupDisplay(displayOk)
  \/ SetupLoad(TRUE, eeprom)
  \/ \E readback \in {RecordBytes(settings), BlankBlock} :
       SetupLoad(FALSE, readback)
  \/ \E d \in RunDeltas, samples \in RawSamples :
       \/ RunIteration(d, FALSE, FALSE, FALSE, samples)
       \/ RunIteration(d, TRUE, FALSE, FALSE, samples)
       \/ RunIteration(d, FALSE, TRUE, FALSE, samples)
       \/ RunIteration(d, FALSE, FALSE, TRUE, samples)
  \/ \E ok \in BOOLEAN : RunRadio(ok)

SpecRun == InitPowerOn /\ [][NextRun]_vars

(***************************************************************************)
(* EEPROM_write (EEPROM_24LCXX.cpp).  eeAddress is a uint16_t; a           *)
(* transmission is the I2C device address, the word address and the bytes  *)
(* data[first .. first + count - 1].                                       *)
(***************************************************************************)
EEPROM_I2C_BASE_ADDRESS == 80

EEPROM_PAGE_SIZE == 16

\* uint16_t arithmetic
U16(x) == x % 65536

\* The I2C device address and the word address of a transmission.
i2cAddr(eeAddress) == EEPROM_I2C_BASE_ADDRESS + ((eeAddress \div 256) % 4)

wordAddr(eeAddress) == eeAddress % 256

\* space left in the current page, capped by what is left of the buffer
bytesToWrite_IgnoresPage(w) ==
  IF EEPROM_PAGE_SIZE > w.len - w.i THEN w.len - w.i ELSE EEPROM_PAGE_SIZE

bytesToWrite(w) ==
  LET room == EEPROM_PAGE_SIZE - (w.eeAddress % EEPROM_PAGE_SIZE)
  IN IF room > w.len - w.i THEN w.len - w.i ELSE room

\* One pass of the while loop's body.
EEPROM_writePass(w) ==
  LET n == bytesToWrite(w)
  IN [w EXCEPT
        !.chunks = Append(@, [eeAddress |-> w.eeAddress,
                              i2cAddr   |-> i2cAddr(w.eeAddress),
                              wordAddr  |-> wordAddr(w.eeAddress),
                              first     |-> w.i,
                              count     |-> n]),
        !.eeAddress = U16(@ + n),
        !.i = @ + n]

\* The longest buffer explored.
EepromMaxLen == 40

\* Start addresses: page starts, page ends, mid-page, the ends of a 256-byte
\* block, of the 1024-byte device and of the uint16_t range.
EepromAddresses == {0, 1, 9, 15, 16, 250, 1015, 65529, 65535}

InitPage ==
  /\ millis = SetupMillis
  /\ InitUI(MutedRecord)
  /\ InitButton(NAV_DEBOUNCE)
  /\ InitAlarm
  /\ InitMapIdle
  /\ InitStoreIdle
  /\ InitBooted
  /\ InitWrapIdle
  /\ \E a \in EepromAddresses, n \in 0 .. EepromMaxLen :
       eeWrite = [eeAddress0 |-> a, len |-> n, eeAddress |-> a, i |-> 0,
                  chunks |-> << >>]

\* while (i < len) { ... }
EepromWritePass ==
  /\ eeWrite.i < eeWrite.len
  /\ eeWrite' = EEPROM_writePass(eeWrite)
  /\ UNCHANGED << uiVars, btnVars, millis, alarmVars, mapVars, storeVars,
                  bootVars, wrapVars >>

NextPage ==
  EepromWritePass

SpecPage == InitPage /\ [][NextPage]_vars

\* The loop is a straight-line while loop: a pass that is enabled is taken.
SpecPageLive == SpecPage /\ WF_vars(EepromWritePass)

(***************************************************************************)
(* The trimmed channels of loop() step 4 under the records setup() leaves  *)
(* in memory.  map() divides by in_max - in_min; when the segment          *)
(* Border_Map takes has no width the division is by zero, which is         *)
(* undefined: the core either traps (the fault handler never returns) or   *)
(* the divide instruction yields some quotient.                            *)
(***************************************************************************)
\* The segment Border_Map takes for val has no width.
ZeroWidthSegment(val, lower, middle, upper) ==
  IF constrain(val, lower, upper) < middle
    THEN middle = lower
    ELSE upper = middle

\* Quotients a division by zero may leave (the divide instruction's 0, all
\* ones).
DivZeroQuotients == {0, -1}

\* Trims a stored record may hold: around the limits and the centre.
ChannelTrims == {-1, 0, 1, TRIM_CENTER, 4094, 4095, 4096}

ChannelRecords ==
  { RadioSettings(t1, t2, TRIM_CENTER, TRUE, FALSE,
                  [i \in Channels |-> FALSE], 0, FALSE) :
      t1 \in ChannelTrims, t2 \in ChannelTrims }

\* analogRead() of a stick: 12 bits.
ChannelReadings == {0, 1, 2047, 2048, 4094, ADC_MAX}

ChannelCalls ==
  { [fn |-> c, val |-> v, lower |-> 0, middle |-> 0, upper |-> ADC_MAX,
     reverse |-> FALSE, airplaneMode |-> FALSE] :
      c \in {"roll", "pitch"}, v \in ChannelReadings }

\* The trim and the inversion flag the channel's line of loop() passes.
channelMiddle(c) == IF c = "roll" THEN settings.trim1 ELSE settings.trim2

channelReverse(c) ==
  IF c = "roll" THEN ~settings.channelInverted[0]
                ELSE ~settings.channelInverted[1]

InitChannel ==
  /\ millis = SetupMillis
  /\ \E stored \in ChannelRecords : InitUI(stored)
  /\ InitButton(NAV_DEBOUNCE)
  /\ InitAlarm
  /\ mapCall \in ChannelCalls
  /\ mapDone = FALSE
  /\ mapRet = 0
  /\ InitStoreIdle
  /\ InitProbeIdle
  /\ InitBooted

\* data.roll = Border_Map(analogRead(PA0), 0, settings.trim1, 4095, ...) and
\* the same for data.pitch.
ChannelCall ==
  LET middle == channelMiddle(mapCall.fn)
      rev    == channelReverse(mapCall.fn)
  IN /\ mapCall.fn \in {"roll", "pitch"}
     /\ ~mapDone
     /\ pc = "inputs"
     /\ IF ZeroWidthSegment(mapCall.val, 0, middle, ADC_MAX)
          THEN \/ /\ pc' = "halted"
                  /\ UNCHANGED << mapDone, mapRet >>
               \/ /\ mapDone' = TRUE
                  /\ \E q \in DivZeroQuotients :
                       LET v == q + (IF mapCall.val < middle THEN 0 ELSE 128)
                       IN mapRet' = U8(IF rev THEN 255 - v ELSE v)
                  /\ pc' = pc
          ELSE /\ mapDone' = TRUE
               /\ mapRet' = U8(Border_Map(mapCall.val, 0, middle, ADC_MAX, rev))
               /\ pc' = pc
     /\ UNCHANGED << uiVars, btnVars, millis, alarmVars, mapCall, storeVars,
                     bootFault, probeVars >>

NextChannel ==
  ChannelCall

SpecChannel == InitChannel /\ [][NextChannel]_vars

(***************************************************************************)
(* The alarm and the UI's tones on the one buzzer pin: an iteration of     *)
(* loop() runs handleLowBatteryAlarm() (step 2) and then the UI logic      *)
(* (step 3), whose beep() calls drive the same pin.                        *)
(***************************************************************************)
\* beep() ends every tone with digitalWrite(BUZZER_PIN, LOW).
pinAfterBeeps(pin, n) ==
  IF n > 0 THEN LOW ELSE pin

\* Milliseconds of loop() explored after setup(), the time spent in beep()
\* not counted.
BuzzHorizon == 200

\* Time between two iterations of loop().
BuzzDelta == 50

\* Battery readings on both sides of the warning threshold.
BuzzReadings == {1666, 1667}

BuzzIteration(adcValue, up, enter) ==
  LET now == U32Sum(millis, BuzzDelta)
      a1  == handleLowBatteryAlarm(readBattery(AlarmG, adcValue), now)
      s1  == loopUI([G EXCEPT !.millis = now], up, FALSE, enter)
      pin == pinAfterBeeps(a1.buzzerPin, s1.tones)
  IN /\ s1.millis - s1.navDelayed <= SetupMillis + BuzzHorizon
     /\ s1.eepromWrites <= MaxWrites
     /\ Becomes(s1)
     /\ batteryVoltage' = a1.batteryVoltage
     /\ lowBatteryWarningActive' = a1.lowBatteryWarningActive
     /\ beepPhase' = a1.beepPhase
     /\ lastBeepTime' = a1.lastBeepTime
     /\ buzzerPin' = pin
     /\ pinSince' = IF pin # buzzerPin THEN s1.millis ELSE pinSince
     /\ alarmSince' = IF a1.lowBatteryWarningActive /\ ~lowBatteryWarningActive
                        THEN now ELSE alarmSince
     /\ UNCHANGED << btnVars, mapVars, storeVars, bootVars, probeVars >>

NextBuzz ==
  \E adcValue \in BuzzReadings, up \in BOOLEAN, enter \in BOOLEAN :
    BuzzIteration(adcValue, up, enter)

SpecBuzz == Init /\ [][NextBuzz]_vars

(***************************************************************************)
(* The timed parts of the program driven across the wrap of millis(): the  *)
(* clock starts WrapLead ms before 2^32, where each part's timestamp has   *)
(* just been recorded (the pin of a button has changed, the alarm has      *)
(* started its first tone, a countdown has been started and a trim step, a *)
(* packet and a frame have just gone out), and runs past 0.  One part is   *)
(* driven in a behaviour: a Button, the alarm, or steps 3 to 6 of loop().  *)
(***************************************************************************)
\* Milliseconds between the initial state and the wrap.
WrapLead == 30

\* Milliseconds explored after the wrap.
WrapHorizon == 60

\* Time between two iterations of loop(): short steps, and one long wait
\* (the alarm's long pause, a countdown of two minutes short of and up to
\* its end).
WrapSteps == {2, 25}

WrapJumps == {1000, 119900, 120000}

WrapDeltas == WrapSteps \cup WrapJumps

\* Trim buttons held in an iteration.
WrapHolds == { {}, {1} }

\* Battery readings below and above the warning threshold.
WrapReadings == {1666, 1667}

\* Steps 3 to 6 of an iteration of loop() that starts d ms after the
\* previous one, with no navigation click: the globals and the display's
\* timestamp afterwards.
wrapLoop(s, last, d, held) ==
  LET s1 == loopInputs([s EXCEPT !.millis = U32Sum(@, d)],
                       FALSE, FALSE, FALSE, {}, held, SticksAtRest)
      s2 == loopRadio(s1, TRUE)
  IN [g |-> s2, display |-> loopDisplay(last, s2.currentPage, s2.millis)]

\* The alarm started at time t: handleLowBatteryAlarm() found the voltage
\* low for the first time.
AlarmStartedAt(t) ==
  handleLowBatteryAlarm(
    readBattery([batteryVoltage |-> 0, lowBatteryWarningActive |-> FALSE,
                 beepPhase |-> 0, lastBeepTime |-> 0, buzzerPin |-> LOW],
                1666), t)

InitWrap ==
  /\ millis = 0 - WrapLead
  /\ wrapUnit \in {"button", "alarm", "loop"}
  /\ currentPage = "PAGE_MAIN3"
  /\ trimsMenuIndex = 0
  /\ settingsMenuIndex = 2
  /\ invertMenuIndex = 0
  /\ selectedTimerMinutes = 2
  /\ isTimerArmed = TRUE
  /\ isTimerRunning = TRUE
  /\ timerRemainingMillis = 2 * 60000
  /\ isTimeEditMode = FALSE
  /\ countdownStartMillis = millis
  /\ settings = [MutedRecord EXCEPT !.airplaneMode = TRUE]
  /\ eeprom = RecordBytes(MutedRecord)
  /\ eepromWrites = 0
  /\ delayed = 0
  /\ expiryAlert = FALSE
  /\ navDelayed = 0
  /\ tones = 0
  /\ forcedTones = 0
  /\ enterSeen = FALSE
  /\ heldSeen = {}
  /\ lastTrimTime = millis
  /\ lastSendTime = millis
  /\ data = ResetData
  /\ rawSamples = SticksAtRest
  /\ sends = 0
  /\ sent = ResetData
  /\ sendOk = TRUE
  /\ lastDisplayTime = millis
  /\ draws = 0
  /\ btn = [Button(NAV_DEBOUNCE) EXCEPT !.lastDebounceTime = millis]
  /\ bpc = "update"
  /\ sampled = FALSE
  /\ sampleLevel = HIGH
  /\ sampleRunStart = 0
  /\ runCounted = FALSE
  /\ shortLowSeen = FALSE
  /\ qualifiedLowRuns = 0
  /\ presses = 0
  /\ releases = 0
  /\ trueReads = 0
  /\ lastCall = "none"
  /\ lastRet = FALSE
  /\ batteryVoltage = AlarmStartedAt(millis).batteryVoltage
  /\ lowBatteryWarningActive = AlarmStartedAt(millis).lowBatteryWarningActive
  /\ beepPhase = AlarmStartedAt(millis).beepPhase
  /\ lastBeepTime = AlarmStartedAt(millis).lastBeepTime
  /\ buzzerPin = AlarmStartedAt(millis).buzzerPin
  /\ pinSince = millis
  /\ alarmSince = millis
  /\ InitMapIdle
  /\ InitStoreIdle
  /\ InitBooted
  /\ eeWrite = NoEepromWrite

\* The model's bound on the clock: short steps up to the horizon, one long
\* wait from within it.
WrapBound(d) ==
  \/ d \in WrapSteps /\ millis <= WrapHorizon - d
  \/ d \in WrapJumps /\ millis <= WrapHorizon

\* update() of the button, then the wasJustPressed() read of the handler.
WrapButtonUpdate(d, reading) ==
  /\ wrapUnit = "button"
  /\ WrapBound(d)
  /\ millis' = U32Sum(millis, d)
  /\ btn' = Button_wasJustPressed(Button_update(btn, reading, millis')).b
  /\ UNCHANGED << uiVars, bpc, sampled, sampleLevel, sampleRunStart,
                  runCounted, shortLowSeen, qualifiedLowRuns, presses,
                  releases, trueReads, lastCall, lastRet, extVars >>

\* Step 2 of loop().
WrapAlarmIteration(d, adcValue) ==
  LET now == U32Sum(millis, d)
      a1  == handleLowBatteryAlarm(readBattery(AlarmG, adcValue), now)
  IN /\ wrapUnit = "alarm"
     /\ WrapBound(d)
     /\ millis' = now
     /\ batteryVoltage' = a1.batteryVoltage
     /\ lowBatteryWarningActive' = a1.lowBatteryWarningActive
     /\ beepPhase' = a1.beepPhase
     /\ lastBeepTime' = a1.lastBeepTime
     /\ buzzerPin' = a1.buzzerPin
     /\ pinSince' = IF a1.buzzerPin # buzzerPin THEN now ELSE pinSince
     /\ alarmSince' = IF a1.lowBatteryWarningActive /\ ~lowBatteryWarningActive
                        THEN now ELSE alarmSince
     /\ UNCHANGED << uiVars, btnVars, mapVars, storeVars, bootVars, probeVars >>

\* Steps 3 to 6 of loop().
WrapLoopIteration(d, held) ==
  LET r == wrapLoop(G, lastDisplayTime, d, held)
  IN /\ wrapUnit = "loop"
     /\ WrapBound(d)
     /\ Becomes(r.g)
     /\ lastDisplayTime' = r.display.lastDisplayTime
     /\ draws' = r.display.draws
     /\ UNCHANGED << btnVars, alarmVars, mapVars, storeVars, bootVars,
                     eeWrite, wrapUnit >>

NextWrap ==
  \/ \E d \in WrapDeltas, reading \in BOOLEAN : WrapButtonUpdate(d, reading)
  \/ \E d \in WrapDeltas, adcValue \in WrapReadings :
       WrapAlarmIteration(d, adcValue)
  \/ \E d \in WrapDeltas, held \in WrapHolds : WrapLoopIteration(d, held)

SpecWrap == InitWrap /\ [][NextWrap]_vars

(***************************************************************************)
(* Claims about the loop's blocking behaviour and about the Button.        *)
(***************************************************************************)

\* C1: no iteration of loop() executes a blocking wait: the navigation,
\* timer-expiry and save-feedback paths never spend time in delay().
C1_NoBlockingWait ==
  delayed = 0

\* C2: the debounced held/not-held state changes only in an update(), and
\* only when the sampled level has been unchanged for at least the debounce
\* window: every sample since (now - window) equals the level just read, and
\* the new state is the one that level stands for (LOW = held).
C2_ChangeOnlyAfterStableWindow ==
  [][ (btn'.buttonIsCurrentlyPressed # btn.buttonIsCurrentlyPressed) =>
        /\ lastCall' = "update"
        /\ sampleLevel' = (IF btn'.buttonIsCurrentlyPressed THEN LOW ELSE HIGH)
        /\ millis' - sampleRunStart' >= btn.debounceDelay ]_vars

\* C2 witness: the button was debounced into held and back into released.
C2_Witness ==
  presses >= 1 /\ releases >= 1

\* C3: wasJustPressed() returns true exactly once per debounced release:
\* the releases so far are the true reads so far plus the one still pending
\* in the flag, a read leaves the flag clear, and a read that returned true
\* had a release to consume.
C3_TrueExactlyOncePerRelease ==
  /\ releases = trueReads + (IF btn.wasJustPressedFlag THEN 1 ELSE 0)
  /\ (lastCall = "wasJustPressed" => ~btn.wasJustPressedFlag)
  /\ (lastCall = "wasJustPressed" /\ lastRet => releases >= 1)
  /\ (bpc = "update" => trueReads = releases)

\* C3 witness: two releases, each consumed by one true read.
C3_Witness ==
  releases = 2 /\ trueReads = 2 /\ lastCall = "wasJustPressed" /\ lastRet

\* C4: a LOW level observed for less than the debounce window produces no
\* click: held states and clicks (consumed or pending) never outnumber the
\* LOW runs that lasted at least the window.
C4_ShortLowNeverClicks ==
  /\ presses <= qualifiedLowRuns
  /\ (btn.buttonIsCurrentlyPressed => qualifiedLowRuns >= 1)
  /\ trueReads + (IF btn.wasJustPressedFlag THEN 1 ELSE 0) <= qualifiedLowRuns

\* C4 witness: a LOW run shorter than the window came and went, the level
\* has been HIGH for longer than the window since, and the read is false.
C4_Witness ==
  /\ shortLowSeen
  /\ qualifiedLowRuns = 0
  /\ sampleLevel = HIGH
  /\ millis - sampleRunStart > btn.debounceDelay
  /\ lastCall = "wasJustPressed"
  /\ ~lastRet

\* C5: isBeingHeld() returns the debounced state and leaves every field of
\* the Button unchanged, the click flag included.
C5_IsBeingHeldChangesNothing ==
  [][ ButtonIsBeingHeld =>
        /\ btn' = btn
        /\ lastRet' = btn.buttonIsCurrentlyPressed ]_vars

\* C5 witness: the held state was polled while a click was pending, and the
\* click is still pending.
C5_Witness ==
  lastCall = "isBeingHeld" /\ btn.wasJustPressedFlag /\ bpc = "read"

(***************************************************************************)
(* Claims about navigation and the timer slot.                             *)
(***************************************************************************)

\* The cursor that belongs to a page, out of the three cursor variables.
CursorOf(page, trimsIdx, settingsIdx, invertIdx) ==
  IF page = "PAGE_TRIMS" THEN trimsIdx
  ELSE IF page = "PAGE_CH_INVERT" THEN invertIdx
  ELSE settingsIdx

\* The number of items the specification gives each page.
ItemCount(page) ==
  CASE page \in {"PAGE_MAIN1", "PAGE_MAIN2"} -> 2
    [] page = "PAGE_MAIN3" -> 3
    [] page = "PAGE_TRIMS" -> 3
    [] page = "MENU" -> 7
    [] page = "PAGE_CH_INVERT" -> 9
    [] OTHER -> 1

\* The pages that draw a cursor: all but the info and calibration pages.
PagesWithCursor ==
  DisplayState \ {"PAGE_INFO", "PAGE_CALIBRATION"}

\* C6 as stated: on every page, the info page included, the cursor of the
\* current page lies in [0, item_count - 1].
C6_CursorInRangeEveryPage ==
  CursorOf(currentPage, trimsMenuIndex, settingsMenuIndex, invertMenuIndex)
    \in 0 .. (ItemCount(currentPage) - 1)

\* C6 amended: on every page that draws a cursor the cursor of the current
\* page lies in [0, item_count - 1]; on the info page the settings cursor,
\* which that page shares, is the info entry or 0.
C6_CursorInRangeWhereDrawn ==
  /\ currentPage \in PagesWithCursor =>
       CursorOf(currentPage, trimsMenuIndex, settingsMenuIndex,
                invertMenuIndex) \in 0 .. (ItemCount(currentPage) - 1)
  /\ currentPage = "PAGE_INFO" => settingsMenuIndex \in {0, SETTING_INFO}

\* C6 witness: the settings cursor on the last slot of the settings menu.
C6_Witness ==
  currentPage = "MENU" /\ settingsMenuIndex = SETTING_TOTAL - 1

\* The cursor one slot up, cyclically, over n slots.
CyclicUp(cur, n) ==
  IF cur = 0 THEN n - 1 ELSE cur - 1

\* The cursor one slot down, cyclically, over n slots.
CyclicDown(cur, n) ==
  IF cur = n - 1 THEN 0 ELSE cur + 1

\* What an Up-only or Down-only iteration outside edit mode does to the
\* cursor of the current page, on the pages of the given set.
CyclicOn(pages) ==
  (~isTimeEditMode /\ currentPage \in pages) =>
    LET cur == CursorOf(currentPage, trimsMenuIndex, settingsMenuIndex,
                        invertMenuIndex)
        new == CursorOf(currentPage, trimsMenuIndex', settingsMenuIndex',
                        invertMenuIndex')
        n   == ItemCount(currentPage)
    IN /\ LoopIteration(TRUE, FALSE, FALSE) => new = CyclicUp(cur, n)
       /\ LoopIteration(FALSE, TRUE, FALSE) => new = CyclicDown(cur, n)

\* C7 as stated: outside edit mode, on every page, Up moves the cursor of
\* the current page to the previous index and from 0 to the last index, and
\* Down to the next index and from the last index to 0.
C7_CyclicEveryPage ==
  [][CyclicOn(DisplayState)]_vars

\* C7 amended: the same on every page that draws a cursor; on the info page
\* Up and Down set the shared settings cursor to 0.
C7_CyclicWhereDrawn ==
  [][ /\ CyclicOn(PagesWithCursor)
      /\ (currentPage = "PAGE_INFO" /\
            (LoopIteration(TRUE, FALSE, FALSE) \/
               LoopIteration(FALSE, TRUE, FALSE))) =>
           settingsMenuIndex' = 0 ]_vars

\* C7 witness: one Up click on the dashboard took the cursor from 0 to the
\* last index (the buzzer is on, so the click took 40 ms).
C7_Witness ==
  /\ currentPage = "PAGE_MAIN3"
  /\ settingsMenuIndex = 2
  /\ ~isTimeEditMode
  /\ millis = SetupMillis + 40

\* The cursor the specification gives the destination of a page change.
DefaultCursor(from, to) ==
  IF from = "PAGE_CH_INVERT" /\ to = "MENU" THEN SETTING_CH_INVERT ELSE 0

\* C8 as stated: every page change leaves the destination page's cursor at
\* 0, except that the return from the inversion page leaves the settings
\* cursor on the inversion entry.
C8_DestinationCursorDefault ==
  [][ currentPage' # currentPage =>
        CursorOf(currentPage', trimsMenuIndex', settingsMenuIndex',
                 invertMenuIndex') = DefaultCursor(currentPage, currentPage')
    ]_vars

\* C8 amended: as stated for every page change that neither enters nor
\* leaves the info page; entering the info page leaves the settings cursor
\* on the info entry, and leaving it returns to the settings menu with the
\* cursor Enter found (unchanged when only Enter was pressed, 0 when Up or
\* Down was pressed on the info page).
C8_DestinationCursorExceptInfo ==
  [][ currentPage' # currentPage =>
        IF currentPage' = "PAGE_INFO"
          THEN currentPage = "MENU" /\ settingsMenuIndex' = SETTING_INFO
        ELSE IF currentPage = "PAGE_INFO"
          THEN /\ currentPage' = "MENU"
               /\ settingsMenuIndex' \in {settingsMenuIndex, 0}
               /\ LoopIteration(FALSE, FALSE, TRUE) =>
                    settingsMenuIndex' = settingsMenuIndex
        ELSE CursorOf(currentPage', trimsMenuIndex', settingsMenuIndex',
                      invertMenuIndex')
               = DefaultCursor(currentPage, currentPage') ]_vars

\* C8 witness: Enter on the info entry changed the page to the info page
\* and the cursor that page shares is not 0.
C8_Witness ==
  currentPage = "PAGE_INFO" /\ settingsMenuIndex = SETTING_INFO

\* The duration after m in the cyclic order (0, 2, 5, 10).
NextDuration(m) ==
  CASE m = 0 -> 2 [] m = 2 -> 5 [] m = 5 -> 10 [] m = 10 -> 0

\* The duration before m in the cyclic order (0, 2, 5, 10).
PrevDuration(m) ==
  CASE m = 0 -> 10 [] m = 2 -> 0 [] m = 5 -> 2 [] m = 10 -> 5

\* C9: in edit mode Up and Down change neither the page nor any cursor; Up
\* selects the next and Down the previous duration of (0, 2, 5, 10), with
\* wrap-around at both ends.
C9_EditModeCyclesDuration ==
  [][ isTimeEditMode =>
        /\ \A up, down \in BOOLEAN :
             LoopIteration(up, down, FALSE) =>
               /\ currentPage' = currentPage
               /\ trimsMenuIndex' = trimsMenuIndex
               /\ settingsMenuIndex' = settingsMenuIndex
               /\ invertMenuIndex' = invertMenuIndex
               /\ isTimeEditMode'
        /\ LoopIteration(TRUE, FALSE, FALSE) =>
             selectedTimerMinutes' = NextDuration(selectedTimerMinutes)
        /\ LoopIteration(FALSE, TRUE, FALSE) =>
             selectedTimerMinutes' = PrevDuration(selectedTimerMinutes) ]_vars

\* C9 witness: in edit mode one Up click took the duration from 10 to 0
\* (buzzer on: Up 40, Enter 150, Down 40, Up 40 ms after setup).
C9_Witness ==
  /\ isTimeEditMode
  /\ selectedTimerMinutes = 0
  /\ settings.buzzerEnabled
  /\ millis = SetupMillis + 270

\* The time beep() takes when called without force.
BeepTime(duration_ms) ==
  IF settings.buzzerEnabled THEN duration_ms ELSE 0

\* C10: Enter in edit mode on the dashboard timer slot clears edit mode; with
\* a nonzero duration the timer is armed and running and its start timestamp
\* is the clock at the commit; with a zero duration it is neither armed nor
\* running.
C10_EnterCommitsTimer ==
  [][ (isTimeEditMode /\ currentPage = "PAGE_MAIN3" /\ settingsMenuIndex = 2)
        => \A up, down \in BOOLEAN :
             LoopIteration(up, down, TRUE) =>
               /\ ~isTimeEditMode'
               /\ IF selectedTimerMinutes' > 0
                    THEN /\ isTimerArmed'
                         /\ isTimerRunning'
                         /\ countdownStartMillis' =
                              millis + (IF up THEN BeepTime(40) ELSE 0)
                                     + (IF down THEN BeepTime(40) ELSE 0)
                                     + BeepTime(50)
                         /\ countdownStartMillis' <= millis'
                    ELSE ~isTimerArmed' /\ ~isTimerRunning' ]_vars

\* C10 witness: a 2-minute timer committed 280 ms after setup is running
\* (buzzer on: Up 40, Enter 150, Up 40, Enter 50 before the commit).
C10_Witness ==
  /\ isTimerArmed
  /\ isTimerRunning
  /\ ~isTimeEditMode
  /\ selectedTimerMinutes = 2
  /\ countdownStartMillis = SetupMillis + 280
  /\ millis = SetupMillis + 380

(***************************************************************************)
(* Claims about the countdown timer.                                       *)
(***************************************************************************)

\* The clock when handleTimerLogic() runs in an iteration that began d ms
\* after the previous one and did not see Enter.
TimerTickTime(d, up, down) ==
  millis + d + (IF up THEN BeepTime(40) ELSE 0)
             + (IF down THEN BeepTime(40) ELSE 0)

\* C11: a countdown armed with d minutes is still running, with the
\* remaining time projected, at every timer tick before d*60000 ms have
\* passed since the commit; at the first tick at or after exactly d*60000 ms
\* remaining is 0 and armed and running are false; and from a state with
\* armed and running false and remaining 0 they stay so until a nonzero
\* duration is committed.
C11_ExpiresAtDuration ==
  [][ /\ \A d \in TimerDeltas, up \in BOOLEAN, down \in BOOLEAN :
           (isTimerRunning /\ TimerLoopIteration(d, up, down, FALSE)) =>
             LET total   == selectedTimerMinutes * 60000
                 elapsed == TimerTickTime(d, up, down) - countdownStartMillis
             IN IF elapsed >= total
                  THEN /\ timerRemainingMillis' = 0
                       /\ ~isTimerRunning'
                       /\ ~isTimerArmed'
                  ELSE /\ timerRemainingMillis' = total - elapsed
                       /\ isTimerRunning'
                       /\ isTimerArmed'
      /\ (~isTimerRunning /\ ~isTimerArmed /\ timerRemainingMillis = 0) =>
           \/ ~isTimerRunning' /\ ~isTimerArmed' /\ timerRemainingMillis' = 0
           \/ /\ isTimeEditMode /\ ~isTimeEditMode'
              /\ selectedTimerMinutes' > 0
              /\ isTimerRunning' /\ isTimerArmed' ]_vars

\* C11 witness: a 2-minute countdown expired at the tick exactly 120000 ms
\* after its commit (the clock has since advanced by the two 500 ms tones).
C11_Witness ==
  /\ selectedTimerMinutes = 2
  /\ ~isTimerRunning /\ ~isTimerArmed /\ timerRemainingMillis = 0
  /\ expiryAlert
  /\ millis = countdownStartMillis + 120000 + 1000

\* C12: an iteration that disarms a running countdown by entering edit mode
\* does not sound the expiry alert, whatever the clock, and the alert sounds
\* only in an iteration that began with the countdown running and did not
\* disarm it.
C12_DisarmCancelsAlert ==
  [][ /\ (isTimerRunning /\ isTimeEditMode') =>
           ~expiryAlert' /\ ~isTimerRunning' /\ ~isTimerArmed'
      /\ expiryAlert' => (isTimerRunning /\ ~isTimeEditMode') ]_vars

\* C12 witness: edit mode was entered in an iteration that began before
\* the expiry instant of the running 2-minute countdown and ended after it,
\* and no alert sounded.
C12_Witness ==
  /\ isTimeEditMode /\ ~isTimerRunning /\ ~isTimerArmed /\ ~expiryAlert
  /\ selectedTimerMinutes = 2
  /\ timerRemainingMillis > 0
  /\ millis - delayed < countdownStartMillis + 120000
  /\ millis >= countdownStartMillis + 120000

\* C13: while a countdown runs (and before it expires) the only event that
\* stops it is Enter on the dashboard timer slot, which enters edit mode;
\* every other Up/Down/Enter event, on any page, leaves the armed flag, the
\* running flag, the selected duration and the start timestamp unchanged.
C13_RunningIndependentOfMenu ==
  [][ isTimerRunning =>
        IF isTimeEditMode'
          THEN /\ currentPage = "PAGE_MAIN3" /\ currentPage' = "PAGE_MAIN3"
               /\ settingsMenuIndex' = 2
               /\ \E up \in BOOLEAN, down \in BOOLEAN :
                    LoopIteration(up, down, TRUE)
               /\ ~isTimerRunning' /\ ~isTimerArmed'
          ELSE /\ isTimerArmed' = isTimerArmed
               /\ isTimerRunning' = isTimerRunning
               /\ selectedTimerMinutes' = selectedTimerMinutes
               /\ countdownStartMillis' = countdownStartMillis ]_vars

\* C13 witness: the countdown runs while a channel was inverted on the
\* inversion page.
C13_Witness ==
  /\ isTimerRunning /\ isTimerArmed
  /\ currentPage = "PAGE_CH_INVERT"
  /\ settings.channelInverted[0]

(***************************************************************************)
(* Claims about the low-battery alarm.                                     *)
(***************************************************************************)

\* The least time the alarm stays in a phase before it moves on: phases 0
\* and 3 start a tone and are left at the very next tick.
PhaseDwell(p) ==
  CASE p = 1 -> 150 [] p = 2 -> 50 [] p = 4 -> 150 [] p = 5 -> 1000
    [] OTHER -> 0

C15_ConditionFalseResets ==
  [][ /\ ~(batteryVoltage' < LOW_BATT_WARNING_VOLTAGE
             /\ batteryVoltage' > DISCONNECT_FLOOR_VOLTAGE) =>
           beepPhase' = 0 /\ ~buzzerPin' /\ ~lowBatteryWarningActive'
      /\ (~lowBatteryWarningActive /\ lowBatteryWarningActive') =>
           beepPhase = 0 /\ beepPhase' = 1 /\ buzzerPin'
             /\ lastBeepTime' = millis' ]_vars

\* C15 witness: the condition became false 50 ms into the first tone; the
\* tone was cut at that tick and the phase is 0.
C15_Witness ==
  /\ ~lowBatteryWarningActive
  /\ beepPhase = 0 /\ ~buzzerPin
  /\ alarmSince > 0
  /\ pinSince = millis
  /\ millis = alarmSince + 50

(***************************************************************************)
(* Claims about the input mapping.                                         *)
(***************************************************************************)

\* C16: for bounds lower < middle < upper and every raw reading r,
\* Border_Map gives r the value of r clamped to [lower, upper], a value in
\* [0, 255], non-decreasing in r when not reversed, exactly 128 at r = middle
\* when not reversed, and with the reverse flag 255 minus the non-reversed
\* value.
C16_BorderMapSplitLinear ==
  (mapCall.fn = "Border_Map" /\ mapDone) =>
    LET lo == mapCall.lower
        mi == mapCall.middle
        up == mapCall.upper
        r  == mapCall.val
        clamped == IF r < lo THEN lo ELSE IF r > up THEN up ELSE r
        plain(x) == Border_Map(x, lo, mi, up, FALSE)
    IN /\ mapRet \in 0 .. 255
       /\ mapRet = Border_Map(clamped, lo, mi, up, mapCall.reverse)
       /\ plain(r) <= plain(r + 1)
       /\ plain(r - 1) <= plain(r)
       /\ (r = mi /\ ~mapCall.reverse) => mapRet = 128
       /\ (r <= lo /\ ~mapCall.reverse) => mapRet = 0
       /\ (r >= up /\ ~mapCall.reverse) => mapRet = 255
       /\ mapCall.reverse => mapRet = 255 - plain(r)

\* C16 witness: a reversed call with the reading at the centre 2048 of the
\* 12-bit range returned 255 - 128.
C16_Witness ==
  /\ mapCall.fn = "Border_Map" /\ mapDone
  /\ mapCall.lower = 0 /\ mapCall.middle = 2048 /\ mapCall.upper = ADC_MAX
  /\ mapCall.val = 2048 /\ mapCall.reverse
  /\ mapRet = 127

\* The linear map of [2048, 4095] onto [0, 255], rounded down.
UpperHalfLinear(raw) ==
  ((raw - 2048) * 255) \div 2047

\* C17: in airplane mode a raw throttle below 2048 maps to 0 and one in
\* [2048, 4095] linearly, non-decreasing and onto [0, 255]; in the other mode
\* the split-linear mapping with bounds 0, 2047, 4095 is used; the channel's
\* inversion flag is applied last, as 255 minus the mapped value; the emitted
\* throttle is in [0, 255].
C17_ThrottleChannel ==
  (mapCall.fn = "throttle" /\ mapDone) =>
    LET raw == mapCall.val
        mapped(x) == IF mapCall.airplaneMode
                       THEN IF x < 2048 THEN 0 ELSE UpperHalfLinear(x)
                       ELSE Border_Map(x, 0, 2047, ADC_MAX, FALSE)
    IN /\ mapRet \in 0 .. 255
       /\ mapped(raw) \in 0 .. 255
       /\ mapRet = IF mapCall.reverse THEN 255 - mapped(raw) ELSE mapped(raw)
       /\ raw < ADC_MAX =>
            /\ mapped(raw) <= mapped(raw + 1)
            /\ mapCall.airplaneMode => mapped(raw + 1) - mapped(raw) <= 1
       /\ (mapCall.airplaneMode /\ raw = 2048) => mapped(raw) = 0
       /\ raw = ADC_MAX => mapped(raw) = 255

\* C17 witness: in airplane mode with the channel inverted, a reading in
\* the lower half gave 255.
C17_Witness ==
  /\ mapCall.fn = "throttle" /\ mapDone
  /\ mapCall.airplaneMode /\ mapCall.reverse
  /\ mapCall.val = 1000
  /\ mapRet = 255

(***************************************************************************)
(* C18: on the inversion page, Enter on a channel slot 0..7 flips that     *)
(* channel's flag and nothing else of the settings record, leaves the page *)
(* and the cursor where they are, and saves: the durable image is the      *)
(* image of the new record.  The same press once more restores the record  *)
(* the first press started from.                                          *)
(***************************************************************************)
C18_InvertToggle ==
  [][(/\ currentPage = "PAGE_CH_INVERT"
      /\ invertMenuIndex \in Channels
      /\ LoopIteration(FALSE, FALSE, TRUE))
     => /\ settings' =
             [settings EXCEPT !.channelInverted[invertMenuIndex] = ~@]
        /\ BytesRecord(eeprom') = settings'
        /\ eepromWrites' = eepromWrites + 1
        /\ currentPage' = currentPage
        /\ invertMenuIndex' = invertMenuIndex
        /\ loopUI(loopUI(G, FALSE, FALSE, TRUE),
                  FALSE, FALSE, TRUE).settings = settings]_vars

\* Two toggles after a boot from the muted record: two writes without any
\* saving screen, and every flag back where it was.
C18_Witness ==
  /\ currentPage = "PAGE_CH_INVERT"
  /\ invertMenuIndex = 3
  /\ eepromWrites = 2
  /\ millis = SetupMillis
  /\ ~settings.buzzerEnabled
  /\ \A ch \in Channels : ~settings.channelInverted[ch]
  /\ BytesRecord(eeprom) = settings

(***************************************************************************)
(* Claims about loading and saving the settings record.                    *)
(***************************************************************************)

\* The default record of the specification: centred trims, buzzer on, dark
\* theme, no channel inverted, the default throttle mode, and the profile
\* index of the record before anything was read into it.
DefaultRecord ==
  RadioSettings(TRIM_CENTER, TRIM_CENTER, TRIM_CENTER, TRUE, FALSE,
                [i \in Channels |-> FALSE], ZeroRecord.timerProfile, FALSE)

\* C19 as stated: a load that finds the validated trim out of range leaves
\* the default record in memory, no field keeping what was read from the
\* chip, and the image in the chip reads back as the default record.
C19_CorruptLoadRestoresDefaults ==
  [][(/\ StoreLoad
      /\ \/ BytesRecord(eeprom).trim1 < MIN_TRIM_VALUE
         \/ BytesRecord(eeprom).trim1 > MAX_TRIM_VALUE)
     => /\ settings' = DefaultRecord
        /\ BytesRecord(eeprom') = DefaultRecord]_vars

\* C20: loadSettings() right after saveSettings() of a record whose fields
\* are all legal leaves the trims, the inversion flags and the throttle
\* mode in memory as they were saved, and writes nothing.
C20_SaveLoadRoundTrip ==
  [][(/\ storeOp = "save"
      /\ [settings EXCEPT !.timerProfile = ZeroRecord.timerProfile]
            \in LegalRecords
      /\ StoreLoad)
     => /\ settings'.trim1 = settings.trim1
        /\ settings'.trim2 = settings.trim2
        /\ settings'.trim3 = settings.trim3
        /\ settings'.channelInverted = settings.channelInverted
        /\ settings'.airplaneMode = settings.airplaneMode
        /\ eepromWrites' = 0
        /\ eeprom' = eeprom]_vars

\* A record with trim1 at the upper limit, channel 3 inverted and the
\* other throttle mode, back in memory after a load that wrote nothing: no
\* image of StoreBlocks holds it, so it was saved before.
C20_Witness ==
  /\ storeOp = "load"
  /\ settings.trim1 = MAX_TRIM_VALUE
  /\ settings.trim2 = MIN_TRIM_VALUE
  /\ settings.channelInverted = [i \in Channels |-> i = 2]
  /\ ~settings.airplaneMode
  /\ eepromWrites = 0
  /\ eeprom = RecordBytes(settings)

(***************************************************************************)
(* C29: setup() leaves the throttle-mode flag in memory at the forced mode *)
(* (airplane) whatever the chip held, without writing the chip; after the  *)
(* load of setup() the flag in the chip changes only in a saveSettings().  *)
(***************************************************************************)
C29_StartupForcesAirplaneMode ==
  [][/\ StoreSetupMode
        => /\ settings'.airplaneMode
           /\ eeprom' = eeprom
           /\ eepromWrites' = eepromWrites
     /\ BytesRecord(eeprom').airplaneMode # BytesRecord(eeprom).airplaneMode
        => \/ StoreSave
           \/ StoreLoad /\ eepromWrites' = 1]_vars

\* setup() has run on a chip holding the other mode: memory says airplane,
\* the chip still says what it said, nothing was written.
C29_Witness ==
  /\ storeOp = "setup"
  /\ settings.airplaneMode
  /\ ~BytesRecord(eeprom).airplaneMode
  /\ eepromWrites = 0

(***************************************************************************)
(* Claims about the trims and about what is written to the EEPROM.         *)
(***************************************************************************)

\* C21 as stated: each of the three trims is within [0, 4095] at all times.
C21_TrimsInRange ==
  \A f \in {"trim1", "trim2", "trim3"} :
    settings[f] \in MIN_TRIM_VALUE .. MAX_TRIM_VALUE

\* The slots on which Enter saves: Save Trims, the toggles and the trim
\* reset of the settings menu, a channel of the inversion page.
SavePoint ==
  \/ currentPage = "PAGE_TRIMS" /\ trimsMenuIndex = 0
  \/ /\ currentPage = "MENU"
     /\ settingsMenuIndex \in {SETTING_LIGHT_MODE, SETTING_BUZZER,
                               SETTING_RESET_TRIMS, SETTING_THROTTLE_MODE}
  \/ currentPage = "PAGE_CH_INVERT" /\ invertMenuIndex \in Channels

\* C22: in loop() the EEPROM is written only by an iteration that handles
\* Enter on a save slot (which Enter leaves where it is); trim adjustments,
\* cursor movement, page changes and the radio step write nothing.
C22_WritesOnlyAtSavePoints ==
  [][(eeprom' # eeprom \/ eepromWrites' # eepromWrites)
     => /\ pc = "inputs"
        /\ enterSeen'
        /\ SavePoint'
        /\ currentPage' = currentPage
        /\ eepromWrites' = eepromWrites + 1]_vars

\* Trims adjusted, pages changed, nothing written.
C22_Witness ==
  /\ eepromWrites = 0
  /\ settings.trim1 # BytesRecord(eeprom).trim1
  /\ currentPage = "PAGE_TRIMS"
  /\ trimsMenuIndex = 1

\* C23: right after every write the image in the EEPROM is the image of
\* the whole record in memory, every field of it.
C23_WholeRecordWritten ==
  [][eepromWrites' > eepromWrites
     => /\ eeprom' = RecordBytes(settings')
        /\ BytesRecord(eeprom') = settings']_vars

\* The theme toggled and saved after trim1 had been adjusted: the image
\* holds the adjusted trim as well.
C23_Witness ==
  /\ eepromWrites = 1
  /\ settings.lightModeEnabled
  /\ settings.trim1 = 4098
  /\ BytesRecord(eeprom) = settings

\* C30: an iteration in which a single trim button is held either leaves
\* the trims alone or moves that button's trim by one step of 5, and then
\* at least 50 ms after the adjustment before; adjustments are at least
\* 50 ms apart whatever is held and however short the loop period.
C30_TrimRepeatThrottled ==
  [][/\ lastTrimTime' # lastTrimTime
        => /\ lastTrimTime' - lastTrimTime >= TRIM_SPEED_DELAY
           /\ lastTrimTime' = millis'
     /\ \A b \in TrimButtons :
          (pc = "inputs" /\ heldSeen' = {b})
            => \/ settings' = settings /\ lastTrimTime' = lastTrimTime
               \/ /\ lastTrimTime' # lastTrimTime
                  /\ \/ settings' = [settings EXCEPT ![trimField(b)] =
                                                        @ + TRIM_STEP]
                     \/ settings' = [settings EXCEPT ![trimField(b)] =
                                                        @ - TRIM_STEP]]_vars

\* Two adjustments of trim1 by the held button, 50 ms apart, with an
\* iteration in between that came too early to adjust.
C30_Witness ==
  /\ settings.trim1 = BytesRecord(eeprom).trim1 + 2 * TRIM_STEP
  /\ lastTrimTime = SetupMillis + 25 + 50
  /\ millis = lastTrimTime

(***************************************************************************)
(* Claims about the order of an iteration, the radio and startup faults.   *)
(***************************************************************************)

\* C24: the packet an iteration leaves in data is the mapping of the raw
\* samples of that iteration under the settings as its navigation handling
\* left them, and the packet the radio step hands to the sender is that
\* packet.
C24_PacketOfThisIteration ==
  [][/\ (pc = "inputs" /\ pc' = "radio")
        => data' = mapChannels(rawSamples', settings')
     /\ (pc = "radio" /\ sends' = 1)
        => /\ sent' = data
           /\ sent' = mapChannels(rawSamples, settings)
           /\ settings' = settings]_vars

\* The ninth iteration after setup() toggled the inversion of channel 1
\* with the sticks deflected, and its packet went out with roll inverted.
C24_Witness ==
  /\ pc = "inputs"
  /\ millis = SetupMillis + 9
  /\ sends = 1
  /\ enterSeen
  /\ currentPage = "PAGE_CH_INVERT"
  /\ settings.channelInverted[0]
  /\ rawSamples = SticksDeflected
  /\ sent.roll = 255
  /\ sent = mapChannels(rawSamples, settings)

\* C25: an iteration hands at most one packet to the sender, and only when
\* at least 4 ms have passed since the timestamp of the emission before;
\* the timestamp moves with every emission and only then.
C25_SendInterval ==
  [][/\ sends' <= 1
     /\ lastSendTime' # lastSendTime
        => /\ pc = "radio"
           /\ sends' = 1
           /\ lastSendTime' = millis
           /\ lastSendTime' - lastSendTime >= SEND_INTERVAL
     /\ (sends' = 1 \/ sent' # sent)
        => pc = "radio" /\ lastSendTime' # lastSendTime]_vars

\* Emissions at 1 and 5 ms after setup(); the iteration 3 ms after the
\* second one handed nothing over.
C25_Witness ==
  /\ pc = "inputs"
  /\ lastSendTime = SetupMillis + 5
  /\ millis = SetupMillis + 8
  /\ sends = 0

\* C26: what radio.write() returns changes nothing but the observation of
\* it: the radio step leaves every global, the timestamp of the emission
\* included, as a successful transmission would.
C26_SenderFailureSilent ==
  [][\A ok \in BOOLEAN :
       RunRadio(ok)
         => /\ G' = [loopRadio(G, TRUE) EXCEPT !.sendOk = sendOk']
            /\ sendOk' # sendOk => sends' = 1]_vars

\* A transmission failed 1 ms after setup(), and the next packet went out
\* 4 ms later.
C26_Witness ==
  /\ pc = "inputs"
  /\ sends = 1
  /\ ~sendOk
  /\ lastSendTime = SetupMillis + 5

\* C27 as stated: after a failed initialisation of the display or of the
\* store the program is halted: it is not in loop(), the settings were not
\* loaded, and no packet was handed to the sender.
C27_InitFailureHalts ==
  bootFault # "none"
    => /\ pc = "halted"
       /\ settings = ZeroRecord
       /\ sends = 0

(***************************************************************************)
(* C28: while the buzzer setting is off, the tones of an iteration are its *)
(* forced tones only (navigation clicks and the timer's commit sound       *)
(* nothing), the save feedback and a trim click would sound nothing        *)
(* either, and the expiry alert sounds its two forced tones of 500 ms      *)
(* whatever the setting.                                                   *)
(***************************************************************************)
C28_MuteSparesForcedTones ==
  /\ ~settings.buzzerEnabled
       => /\ tones = forcedTones
          /\ showSavingFeedback(G).tones = tones
          /\ handleTrimButtons(G, TrimButtons, {}).tones = tones
  /\ expiryAlert
       => /\ forcedTones = 2
          /\ tones >= 2
          /\ delayed >= 2 * 500

\* The countdown expired with the buzzer muted, and both tones sounded.
C28_Witness ==
  /\ ~settings.buzzerEnabled
  /\ expiryAlert
  /\ forcedTones = 2
  /\ delayed = 2 * 500

(***************************************************************************)
(* C31: EEPROM_write terminates, and its transmissions cover the buffer in *)
(* order without crossing a page.  At every point of the loop the          *)
(* transmissions made so far are non-empty, start at data[0], follow one   *)
(* another without gap or overlap up to data[i - 1], go to the address     *)
(* eeAddress + first (in uint16_t arithmetic) and stay within one 16-byte  *)
(* page; and the loop reaches i = len.                                     *)
(***************************************************************************)
C31_PageWrites ==
  /\ [](LET c == eeWrite.chunks
            end(k) == IF k = 0 THEN 0 ELSE c[k].first + c[k].count
        IN /\ eeWrite.i <= eeWrite.len
           /\ eeWrite.i = end(Len(c))
           /\ eeWrite.eeAddress = U16(eeWrite.eeAddress0 + eeWrite.i)
           /\ \A k \in 1 .. Len(c) :
                /\ c[k].count >= 1
                /\ c[k].first = end(k - 1)
                /\ c[k].eeAddress = U16(eeWrite.eeAddress0 + c[k].first)
                /\ (c[k].eeAddress % EEPROM_PAGE_SIZE) + c[k].count
                     <= EEPROM_PAGE_SIZE
                /\ (c[k].i2cAddr - EEPROM_I2C_BASE_ADDRESS) * 256
                     + c[k].wordAddr
                     = c[k].eeAddress % 1024)
  /\ <>[](eeWrite.i = eeWrite.len)

\* A buffer that starts mid-page and spans three pages has been written.
C31_Witness ==
  /\ eeWrite.i = eeWrite.len
  /\ eeWrite.eeAddress0 % EEPROM_PAGE_SIZE # 0
  /\ Len(eeWrite.chunks) >= 3
  /\ eeWrite.chunks[1].count < EEPROM_PAGE_SIZE

(***************************************************************************)
(* C32: the durable record always passes the validation of loadSettings(): *)
(* a reboot would keep it, writing nothing and defaulting nothing.         *)
(***************************************************************************)
C32_SavedRecordSurvivesReboot ==
  /\ loadSettings(eeprom).eepromWrites = 0
  /\ loadSettings(eeprom).settings = BytesRecord(eeprom)

(***************************************************************************)
(* C33: under every record setup() leaves in memory and every reading in   *)
(* 0..4095 the trimmed channels are well defined: the segment Border_Map   *)
(* takes has a width, so no channel computation traps or returns the       *)
(* outcome of a division by zero.                                          *)
(***************************************************************************)
C33_ChannelsWellDefined ==
  mapCall.fn \in {"roll", "pitch"}
    => /\ pc # "halted"
       /\ mapDone => ~ZeroWidthSegment(mapCall.val, 0,
                                       channelMiddle(mapCall.fn), ADC_MAX)

(***************************************************************************)
(* C34: the tones of the UI do not disturb the alarm: at the end of every  *)
(* iteration that leaves the alarm in a tone-on phase (beepPhase 1 or 4)   *)
(* the buzzer pin is HIGH.                                                 *)
(***************************************************************************)
C34_AlarmToneSurvivesFeedback ==
  beepPhase \in {1, 4} => buzzerPin = HIGH

(***************************************************************************)
(* C35: while isTimeEditMode is set the page is the dashboard              *)
(* (PAGE_MAIN3), its cursor is on the timer slot (2) and the timer is      *)
(* neither armed nor running; and an iteration that clears the flag is one *)
(* that handled an Enter click.                                            *)
(***************************************************************************)
C35_EditModeOnDashboard ==
  /\ [](isTimeEditMode
          => /\ currentPage = "PAGE_MAIN3"
             /\ settingsMenuIndex = 2
             /\ ~isTimerArmed
             /\ ~isTimerRunning)
  /\ [][isTimeEditMode /\ ~isTimeEditMode' => enterSeen']_vars

\* Edit mode was entered, Up or Down changed the duration, and the flag is
\* still set.
C35_Witness ==
  /\ isTimeEditMode
  /\ selectedTimerMinutes # 0
  /\ ~enterSeen

(***************************************************************************)
(* C36: between iterations of loop() the timer is armed exactly when it is *)
(* running, and a running timer has a selected duration of 2, 5 or 10      *)
(* minutes.                                                                *)
(***************************************************************************)
C36_ArmedIsRunning ==
  /\ isTimerArmed = isTimerRunning
  /\ isTimerRunning => selectedTimerMinutes \in {2, 5, 10}

\* A countdown of two minutes has run for a while.
C36_Witness ==
  /\ isTimerArmed
  /\ isTimerRunning
  /\ selectedTimerMinutes = 2
  /\ timerRemainingMillis > 0
  /\ timerRemainingMillis < 2 * 60000

(***************************************************************************)
(* C37: between iterations of loop() the durable record and the record in  *)
(* memory hold the same buzzer flag, theme flag and inversion flags (and   *)
(* timer profile): they differ at most in the trims and the throttle mode. *)
(***************************************************************************)
C37_FlagsDurable ==
  pc \in {"inputs", "radio"}
    => LET stored == BytesRecord(eeprom)
       IN /\ stored.buzzerEnabled = settings.buzzerEnabled
          /\ stored.lightModeEnabled = settings.lightModeEnabled
          /\ stored.channelInverted = settings.channelInverted
          /\ stored.timerProfile = settings.timerProfile

(***************************************************************************)
(* C38: the calibration page is never the current page: from the dashboard *)
(* every sequence of Up, Down and Enter clicks stays on the other seven    *)
(* pages.                                                                  *)
(***************************************************************************)
C38_CalibrationUnreachable ==
  currentPage \in DisplayState \ {"PAGE_CALIBRATION"}

\* The deepest page of the menu, the one whose Enter branch the calibration
\* page shares, has just been opened.
C38_Witness ==
  /\ currentPage = "PAGE_INFO"
  /\ settingsMenuIndex = SETTING_INFO
  /\ enterSeen

(***************************************************************************)
(* C39: navigation has no trap.  From every reachable state a finite       *)
(* sequence of single clicks leads to the dashboard with edit mode off:    *)
(* Enter leaves the editor, the info page and the last slot of each page   *)
(* (the "back" slots); Down moves the cursor towards that slot.            *)
(***************************************************************************)
AtHome(s) ==
  s.currentPage = "PAGE_MAIN3" /\ ~s.isTimeEditMode

\* The slot of each page whose Enter leads towards the dashboard.
HomeSlot(page) ==
  IF page = "PAGE_MAIN1" \/ page = "PAGE_MAIN2" THEN 1
  ELSE IF page = "PAGE_TRIMS" THEN 2
  ELSE IF page = "MENU" THEN SETTING_BACK
  ELSE 8

\* The click to make in state s: "enter" or "down".
HomeClick(s) ==
  IF s.isTimeEditMode \/ s.currentPage \in {"PAGE_INFO", "PAGE_CALIBRATION"}
    THEN "enter"
  ELSE IF s.currentPage = "PAGE_TRIMS"
    THEN IF s.trimsMenuIndex = HomeSlot(s.currentPage) THEN "enter" ELSE "down"
  ELSE IF s.currentPage = "PAGE_CH_INVERT"
    THEN IF s.invertMenuIndex = HomeSlot(s.currentPage) THEN "enter" ELSE "down"
  ELSE IF s.settingsMenuIndex = HomeSlot(s.currentPage) THEN "enter" ELSE "down"

\* Clicks that suffice from anywhere: 9 on the inversion page, 7 in the
\* menu, 3 on the trim page and 2 on each channel page.
HomeBudget == 9 + 7 + 3 + 2 + 2

RECURSIVE ReturnsHome(_, _)
ReturnsHome(s, n) ==
  IF AtHome(s) THEN TRUE
  ELSE IF n = 0 THEN FALSE
  ELSE ReturnsHome(loopUI(s, FALSE, HomeClick(s) = "down",
                          HomeClick(s) = "enter"), n - 1)

C39_NoTrapState ==
  ReturnsHome(G, HomeBudget)

\* The page farthest from the dashboard, its cursor on the first channel.
C39_Witness ==
  /\ currentPage = "PAGE_CH_INVERT"
  /\ invertMenuIndex = 0
  /\ ~ReturnsHome(G, HomeBudget - 3)
  /\ ReturnsHome(G, HomeBudget)

(***************************************************************************)
(* C40: the interval tests behave the same across the wrap of the clock.   *)
(* A state near the wrap is compared with the same state WrapLead ms       *)
(* later on the clock, where the counter has already wrapped and neither   *)
(* the timestamps nor the current time straddle 2^32: for every next       *)
(* sample, reading, held button and waiting time, the debounce of the      *)
(* Button, the alarm's phase timers, and the countdown, the trim repeat,   *)
(* the send interval and the display interval of loop() do the same in     *)
(* both, timestamp for timestamp.                                          *)
(***************************************************************************)
\* A timestamp, a Button, the alarm and the globals WrapLead ms later.
Later(t) == t + WrapLead

LaterButton(b) ==
  [b EXCEPT !.lastDebounceTime = Later(@)]

LaterAlarm(a) ==
  [a EXCEPT !.lastBeepTime = Later(@)]

LaterG(s) ==
  [s EXCEPT !.millis = Later(@),
            !.countdownStartMillis = Later(@),
            !.lastTrimTime = Later(@),
            !.lastSendTime = Later(@)]

LaterDisplay(d) ==
  [d EXCEPT !.lastDisplayTime = Later(@)]

C40_WrapTransparent ==
  \A d \in WrapDeltas :
    LET now == U32Sum(millis, d)
    IN /\ wrapUnit = "button"
            => \A reading \in BOOLEAN :
                 LaterButton(Button_update(btn, reading, now))
                   = Button_update(LaterButton(btn), reading, Later(now))
       /\ wrapUnit = "alarm"
            => \A adcValue \in WrapReadings :
                 LaterAlarm(handleLowBatteryAlarm(
                              readBattery(AlarmG, adcValue), now))
                   = handleLowBatteryAlarm(
                       readBattery(LaterAlarm(AlarmG), adcValue), Later(now))
       /\ wrapUnit = "loop"
            => \A held \in WrapHolds :
                 LET a == wrapLoop(G, lastDisplayTime, d, held)
                     b == wrapLoop(LaterG(G), Later(lastDisplayTime), d, held)
                 IN /\ LaterG(a.g) = b.g
                    /\ LaterDisplay(a.display) = b.display

\* An interval has elapsed from a timestamp taken before the wrap to a time
\* after it: the Button has committed the held state; the alarm has ended
\* its first tone; in loop() the trim has stepped and a packet has gone
\* out while the countdown started before the wrap runs on.
WrapButtonCommitted ==
  /\ wrapUnit = "button"
  /\ btn.lastDebounceTime < 0
  /\ millis >= 0
  /\ btn.buttonIsCurrentlyPressed

WrapAlarmToneEnded ==
  /\ wrapUnit = "alarm"
  /\ millis >= 0
  /\ beepPhase = 2
  /\ lastBeepTime = millis
  /\ pinSince = millis

C40_Witness ==
  /\ wrapUnit = "loop"
  /\ millis >= 0
  /\ millis < 25
  /\ countdownStartMillis < 0
  /\ isTimerRunning
  /\ timerRemainingMillis = 2 * 60000 - (millis - countdownStartMillis)
  /\ lastTrimTime = millis
  /\ settings.trim1 = TRIM_CENTER + TRIM_STEP
  /\ sends = 1
  /\ draws = 0

=============================================================================
